---- MODULE Spec2Model ----
(***************************************************************************)
(* The controller side of the diffusion engine (DiffusionEngine,          *)
(* src/src/python/enfugue/diffusion/engine.py) together with the worker   *)
(* process it supervises.  The controller is one sequential thread: pc is *)
(* its position, stack the continuations of the methods that called the   *)
(* running one, loc the locals of the running methods.  The worker is a   *)
(* separate process whose steps interleave with the controller's at every *)
(* point where the source observes it (process.is_alive(), a queue        *)
(* operation) or sleeps.                                                  *)
(***************************************************************************)
EXTENDS Integers, Sequences, FiniteSets, TLC

\* ---------------------------------------------------------------- bounds
\* Largest request id handed out in a behaviour.
MaxRequests == 2
\* Largest number of worker processes started in a behaviour.
MaxSpawns == 2
\* Largest timeout a caller passes.  Time is counted in polling sleeps
\* (POLLING_DELAY_MS / 500 seconds).  The time elapsed after c sleeps is a little
\* more than c, and a timeout t >= 1 stands for every duration longer than t - 1
\* sleeps and not longer than t sleeps (1 also for a timeout of zero), so that
\* every comparison of a timeout with the time elapsed is decided by c and t.
MaxTimeout == 1
\* Largest number of progress envelopes held by the intermediates queue.
MaxProgress == 1
\* Largest number of progress envelopes on the intermediates queue when
\* last_intermediate is called.
MaxSteps == 2
\* Largest number of entries of a list of LoRA or of textual inversions (the
\* lists of LyCORIS hold one entry less).
MaxWeights == 2
\* Largest number of base pipelines the manager constructs.
MaxBuilds == 2
\* Largest number of entries of a list handed to a setter of the manager.
MaxEntries == 1
\* Largest number of envelopes the worker posts while threads are inside wait.
MaxDrained == 3
\* Images refined in one call, progress events of one refinement, and the
\* depth of nested calls at which the interpreter raises RecursionError.
MaxImages == 2
MaxEvents == 1
MaxFrames == 3

\* ------------------------------------------------------------- constants
\* timeout=None (engine.py:241, engine.py:152 allow Optional timeouts).
NoTimeout == -1

\* Python's None, as a result value and as the "nothing captured" marker.
NoneVal == <<"None", 0>>
\* A payload is written <<value, n>>: the value, and the id of the request whose
\* envelope carries it (0 for None, which no envelope distinguishes).
\* The reply keepalive expects to ping n (engine.py:198), and another reply.
Pong(n) == <<"pong", n>>
BadPong(n) == <<"bad", n>>
True == <<"bool", 1>>
False == <<"bool", 0>>
\* The payload the worker computes for request n, the error it reports for it
\* (resolve(error)(message), engine.py:264).
Res(n) == <<"res", n>>
Err(n) == <<"err", n>>

QueueNames == {"instructions", "results", "intermediates"}
Timeouts == {NoTimeout} \cup (1..MaxTimeout)
\* terminate_process' default timeout (10 s, engine.py:152) is longer than every
\* time the clock counts.
DefaultTimeout == MaxTimeout + 1

\* No instruction in hand (the worker is between instructions).
NoInstr == [id |-> 0, action |-> "none"]

\* Two of the keys last_intermediate copies (line 233 lists five and treats each
\* alike), and two values a key may carry.
ProgressKeys == {"step", "total"}
ProgressValues == {1, 2}
\* The fields of a progress envelope: any of the keys, each with a value.
NoFields == [k \in {} |-> 0]
ProgressData == UNION {[K -> ProgressValues] : K \in SUBSET ProgressKeys}
\* intermediate_data = None (line 227), and intermediate_data = {"id": id, ...}.
NoData == [some |-> FALSE, fields |-> NoFields]
Data(f) == [some |-> TRUE, fields |-> f]

VARIABLES
    request,        \* self.request, the id counter
    process,        \* self.process: 0 when the attribute is absent, else the worker's number
    started,        \* number of worker processes ever started
    aliveSet,       \* the started worker processes that are still running
    wcur,           \* per worker: the instruction it is working on, or NoInstr
    qs,             \* the queue attributes that exist (_instructions, _results, _intermediates)
    instructions,   \* contents of the instructions queue
    results,        \* contents of the results queue
    intermediates,  \* contents of the intermediates queue
    pc,             \* the controller's position
    stack,          \* continuations of the calling methods
    loc,            \* locals of the running methods (got is history: this wait call has
                    \* taken an envelope tagged with its id off the results queue)
    call,           \* the top-level call in progress (or the last one)
    outcome,        \* how the last completed top-level call ended
    posted,         \* history: the ids of the result envelopes not yet consumed, in the order the worker posted them
    owed,           \* history: ids whose envelope stood by while a wait for another id returned
    manager,        \* the pipeline manager (DiffusionPipelineManager): its fields
    keyed,          \* the configurations whose cache keys are compared, and the keys
    pm,             \* the pipeline manager during generation calls: its three pipelines
    refine,         \* an image on its way through the refiner's scaling
    waiters         \* threads of the controller inside wait, and what the worker has yet to post

chans == <<qs, instructions, results, intermediates>>
hist == <<posted, owed>>
worker == <<aliveSet, wcur>>
mgr == <<manager, keyed, pm, refine, waiters>>
engineVars == <<request, process, started, aliveSet, wcur, qs, instructions, results,
                intermediates, pc, stack, loc, call, outcome, posted, owed>>
vars == <<request, process, started, aliveSet, wcur, qs, instructions, results,
          intermediates, pc, stack, loc, call, outcome, posted, owed, manager, keyed,
          pm, refine, waiters>>

\* ---------------------------------------------------------------- locals
InitLoc ==
    [id |-> 0, timeout |-> NoTimeout, all_results |-> <<>>, idx |-> 0,
     to_raise |-> NoneVal, to_return |-> NoneVal, got |-> FALSE,
     clock |-> 0, kills |-> 0, action |-> "none", spawn |-> FALSE,
     fail |-> FALSE, ret |-> NoneVal, queue |-> "none",
     all_steps |-> <<>>, intermediate_data |-> NoData]

NoCall == [op |-> "none", id |-> 0, timeout |-> NoTimeout, flag |-> FALSE]
NoOutcome == [op |-> "none", id |-> 0, kind |-> "none", val |-> NoneVal, at |-> 0]

\* No pipeline manager, no configurations in hand: the engine's specifications
\* leave them so.
NoManager == [op |-> "none"]
NoKeyed == [op |-> "none"]
NoPm == [op |-> "none"]
NoRefine == [op |-> "none"]
NoWaiters == [op |-> "none"]

Init ==
    /\ request = 0
    /\ process = 0
    /\ started = 0
    /\ aliveSet = {}
    /\ wcur = [w \in 1..(MaxSpawns + 1) |-> NoInstr]
    /\ qs = {}
    /\ instructions = <<>>
    /\ results = <<>>
    /\ intermediates = <<>>
    /\ pc = "idle"
    /\ stack = <<>>
    /\ loc = InitLoc
    /\ call = NoCall
    /\ outcome = NoOutcome
    /\ posted = <<>>
    /\ owed = {}
    /\ manager = NoManager
    /\ keyed = NoKeyed
    /\ pm = NoPm
    /\ refine = NoRefine
    /\ waiters = NoWaiters

\* --------------------------------------------------------------- helpers
\* self.process.is_alive() on an existing handle.
ProcAlive == process /= 0 /\ process \in aliveSet

\* The clock advances by the time slept, and stops counting once it is past
\* every timeout a caller can pass.
Sleep(c, n) == IF c + n > MaxTimeout + 1 THEN MaxTimeout + 1 ELSE c + n

\* How a top-level call ends: by "return" or by the kind of exception it raises,
\* with the value returned or raised and the source line of the statement.
Outcome(kind, v, line) ==
    [op |-> call.op, id |-> loc.id, kind |-> kind, val |-> v, at |-> line]

\* A method returns v: to the caller on top of the stack, or to the user.
Return(v, l, line) ==
    IF stack = <<>>
    THEN /\ pc' = "idle"
         /\ outcome' = Outcome("return", v, line)
         /\ loc' = InitLoc
         /\ call' = NoCall
         /\ stack' = stack
    ELSE /\ pc' = Head(stack)
         /\ stack' = Tail(stack)
         /\ loc' = [l EXCEPT !.ret = v]
         /\ UNCHANGED <<outcome, call>>

\* An exception leaves every method on the stack (none of them catches it, but
\* for spawn_process' handler, which is part of Spawn133).
Raise(kind, v, line) ==
    /\ pc' = "idle"
    /\ stack' = <<>>
    /\ loc' = InitLoc
    /\ call' = NoCall
    /\ outcome' = Outcome(kind, v, line)

\* terminate_process on a handle whose process is dead: lines 180-183.
Teardown ==
    /\ process' = 0
    /\ qs' = {}
    /\ instructions' = <<>>
    /\ results' = <<>>
    /\ intermediates' = <<>>
    /\ posted' = <<>>
    /\ owed' = {}

Keep == UNCHANGED <<process, qs, instructions, results, intermediates, posted, owed>>

\* is_alive(): a dead process behind an existing handle is cleaned up.
IsAliveEffect == IF process /= 0 /\ process \notin aliveSet THEN Teardown ELSE Keep

\* ------------------------------------------------------------ top-level calls
\* The user calls a method of the engine; its first statement runs in the next step.
CallSpawn ==
    /\ pc = "idle"
    /\ \E f \in BOOLEAN :
          /\ call' = [op |-> "spawn", id |-> 0, timeout |-> NoTimeout, flag |-> f]
          /\ loc' = [InitLoc EXCEPT !.fail = f]
    /\ pc' = "spawn_119"
    /\ outcome' = NoOutcome
    /\ UNCHANGED <<request, process, started, worker, chans, hist, stack>>
    /\ UNCHANGED mgr

CallIsAlive ==
    /\ pc = "idle"
    /\ call' = [op |-> "is_alive", id |-> 0, timeout |-> NoTimeout, flag |-> FALSE]
    /\ pc' = "is_alive_143"
    /\ outcome' = NoOutcome
    /\ UNCHANGED <<request, process, started, worker, chans, hist, stack, loc>>
    /\ UNCHANGED mgr

CallTerminate ==
    /\ pc = "idle"
    /\ \E t \in Timeouts \cup {DefaultTimeout} :
          /\ call' = [op |-> "terminate", id |-> 0, timeout |-> t, flag |-> FALSE]
          /\ loc' = [InitLoc EXCEPT !.timeout = t]
    /\ pc' = "term_156"
    /\ outcome' = NoOutcome
    /\ UNCHANGED <<request, process, started, worker, chans, hist, stack>>
    /\ UNCHANGED mgr

CallKeepalive ==
    /\ pc = "idle"
    /\ call' = [op |-> "keepalive", id |-> 0, timeout |-> NoTimeout, flag |-> FALSE]
    /\ pc' = "keepalive_189"
    /\ outcome' = NoOutcome
    /\ UNCHANGED <<request, process, started, worker, chans, hist, stack, loc>>
    /\ UNCHANGED mgr

CallDispatch ==
    /\ pc = "idle"
    /\ \E s \in BOOLEAN :
          /\ call' = [op |-> "dispatch", id |-> 0, timeout |-> NoTimeout, flag |-> s]
          /\ loc' = [InitLoc EXCEPT !.action = "invoke", !.spawn = s]
    /\ pc' = "dispatch_207"
    /\ outcome' = NoOutcome
    /\ UNCHANGED <<request, process, started, worker, chans, hist, stack>>
    /\ UNCHANGED mgr

CallWait ==
    /\ pc = "idle"
    /\ \E k \in 1..MaxRequests, t \in Timeouts :
          /\ call' = [op |-> "wait", id |-> k, timeout |-> t, flag |-> FALSE]
          /\ loc' = [InitLoc EXCEPT !.id = k, !.timeout = t]
    /\ pc' = "wait_249"
    /\ outcome' = NoOutcome
    /\ UNCHANGED <<request, process, started, worker, chans, hist, stack>>
    /\ UNCHANGED mgr

\* invoke / execute(wait=True) / __call__: wait(dispatch(...), timeout).
CallInvoke ==
    /\ pc = "idle"
    /\ \E t \in Timeouts :
          /\ call' = [op |-> "invoke", id |-> 0, timeout |-> t, flag |-> TRUE]
          /\ loc' = [InitLoc EXCEPT !.action = "invoke", !.spawn = TRUE, !.timeout = t]
    /\ pc' = "dispatch_207"
    /\ stack' = <<"invoke_287">>
    /\ outcome' = NoOutcome
    /\ UNCHANGED <<request, process, started, worker, chans, hist>>
    /\ UNCHANGED mgr

\* ------------------------------------------------------------ spawn_process
\* A spawn_process that starts a process whatever the handle says.
RedundantSpawn_Never(p, al) == FALSE

\* A spawn_process that tests the handle alone, not the liveness of its process.
RedundantSpawn_DeadOnly(p, al) == p /= 0 /\ p \notin al

\* Line 119: a handle exists and its process is running.
RedundantSpawn(p, al) == p /= 0 /\ p \in al

\* Lines 119-132: refuse or ignore a redundant spawn; otherwise fetch the three
\* queues (check_get_queue creates the missing ones, after is_alive() has cleaned
\* up a dead handle), create and start the process, and sleep.
Spawn119 ==
    /\ pc = "spawn_119"
    /\ IF RedundantSpawn(process, aliveSet)
       THEN /\ IF loc.fail
               THEN Raise("IOError", <<"redundant", 0>>, 121)
               ELSE Return(NoneVal, loc, 122)
            /\ UNCHANGED <<request, started, worker>>
            /\ Keep
       ELSE IF qs /= QueueNames /\ ProcAlive
       THEN /\ Raise("IOError", <<"queue_missing", 0>>, 56)
            /\ UNCHANGED <<request, started, worker>>
            /\ Keep
       ELSE /\ started < MaxSpawns
            /\ started' = started + 1
            /\ process' = started + 1
            /\ aliveSet' = aliveSet \cup {started + 1}
            /\ qs' = QueueNames
            /\ IF qs /= QueueNames /\ process /= 0
               THEN /\ instructions' = <<>>
                    /\ results' = <<>>
                    /\ intermediates' = <<>>
                    /\ posted' = <<>>
                    /\ owed' = {}
               ELSE UNCHANGED <<instructions, results, intermediates, posted, owed>>
            /\ pc' = "spawn_133"
            /\ loc' = [loc EXCEPT !.clock = Sleep(loc.clock, 2)]
            /\ UNCHANGED <<request, wcur, stack, call, outcome>>
    /\ UNCHANGED mgr

\* Lines 133-137: the process must be alive after the sleep; if not, is_alive() has
\* cleaned up, the handler's terminate_process() finds no handle, and IOError leaves.
Spawn133 ==
    /\ pc = "spawn_133"
    /\ IF ProcAlive
       THEN Return(NoneVal, loc, 133) /\ Keep
       ELSE Raise("IOError", <<"died_spawning", 0>>, 134) /\ IsAliveEffect
    /\ UNCHANGED <<request, started, worker>>
    /\ UNCHANGED mgr

\* ------------------------------------------------------------------ is_alive
IsAlive143 ==
    /\ pc = "is_alive_143"
    /\ IsAliveEffect
    /\ Return(IF ProcAlive THEN True ELSE False, loc,
              IF process = 0 THEN 144 ELSE IF ProcAlive THEN 150 ELSE 148)
    /\ UNCHANGED <<request, started, worker>>
    /\ UNCHANGED mgr

\* ------------------------------------------------------------------ dispatch
\* A dispatch that does not count.
NextRequestId_Same(r) == r

\* Line 209: the next request id.
NextRequestId(r) == r + 1

\* Lines 207-208.
Dispatch207 ==
    /\ pc = "dispatch_207"
    /\ IF loc.spawn
       THEN /\ pc' = "spawn_119"
            /\ stack' = <<"dispatch_209">> \o stack
            /\ loc' = [loc EXCEPT !.fail = FALSE]
       ELSE /\ pc' = "dispatch_209"
            /\ UNCHANGED <<stack, loc>>
    /\ UNCHANGED <<request, process, started, worker, chans, hist, call, outcome>>
    /\ UNCHANGED mgr

\* Lines 209-213: count, build the envelope, put it on the instructions queue
\* (check_get_queue creates the queue when it is missing and no process is alive).
Dispatch209 ==
    /\ pc = "dispatch_209"
    /\ request < MaxRequests
    /\ request' = NextRequestId(request)
    /\ LET envelope == [id |-> request', action |-> loc.action]
       IN  IF "instructions" \in qs
           THEN /\ instructions' = Append(instructions, envelope)
                /\ UNCHANGED <<process, qs, results, intermediates, posted, owed>>
                /\ Return(<<"id", envelope.id>>, loc, 213)
           ELSE IF ProcAlive
           THEN /\ Keep
                /\ Raise("IOError", <<"queue_missing", 0>>, 56)
           ELSE /\ instructions' = <<envelope>>
                /\ IF process /= 0
                   THEN /\ process' = 0
                        /\ qs' = {"instructions"}
                        /\ results' = <<>>
                        /\ intermediates' = <<>>
                        /\ posted' = <<>>
                        /\ owed' = {}
                   ELSE /\ qs' = qs \cup {"instructions"}
                        /\ UNCHANGED <<process, results, intermediates, posted, owed>>
                /\ Return(<<"id", envelope.id>>, loc, 213)
    /\ UNCHANGED <<started, worker>>
    /\ UNCHANGED mgr

\* ---------------------------------------------------------------------- wait
\* A wait that takes whatever envelope comes first.
Matches_Any(e, id) == TRUE

\* Line 262: the envelope belongs to the request waited for.
Matches(e, id) == e.id = id

\* Line 280: the time since the call began exceeds the timeout.
WaitExpired(c, t) == t /= NoTimeout /\ c >= t

\* q without the entries equal to k.
Without(q, k) == SelectSeq(q, LAMBDA x : x /= k)

\* The ids of the envelopes of q that are not tagged k.
Others(q, k) == {q[i].id : i \in {j \in 1..Len(q) : q[j].id /= k}}

\* Lines 249-257: the liveness check, then the results queue is drained into all_results.
Wait249 ==
    /\ pc = "wait_249"
    /\ IF ~ProcAlive
       THEN /\ IsAliveEffect
            /\ Raise("IOError", <<"died_waiting", 0>>, 250)
       ELSE IF "results" \notin qs
       THEN /\ Keep
            /\ Raise("IOError", <<"queue_missing", 0>>, 56)
       ELSE /\ results' = <<>>
            /\ loc' = [loc EXCEPT !.all_results = results, !.idx = 1,
                                  !.to_raise = NoneVal, !.to_return = NoneVal]
            /\ pc' = "wait_259"
            /\ UNCHANGED <<process, qs, instructions, intermediates, posted, owed,
                           stack, outcome, call>>
    /\ UNCHANGED <<request, started, worker>>
    /\ UNCHANGED mgr

\* A wait that does not look for the "error" key.
Capture_AsResult(l, result) ==
    [l EXCEPT !.to_return = result.val, !.got = TRUE, !.idx = @ + 1]

\* Lines 263-268: the locals after a matching envelope is captured, as the error to
\* raise when it carries one, as the result to return otherwise.
Capture(l, result) ==
    IF result.kind = "error"
    THEN [l EXCEPT !.to_raise = result.val, !.got = TRUE, !.idx = @ + 1]
    ELSE [l EXCEPT !.to_return = result.val, !.got = TRUE, !.idx = @ + 1]

\* Lines 259-270, one drained envelope: capture it when its id matches, put it
\* back on the queue otherwise.
Wait259 ==
    /\ pc = "wait_259"
    /\ loc.idx <= Len(loc.all_results)
    /\ LET result == loc.all_results[loc.idx]
       IN  IF Matches(result, loc.id)
           THEN /\ loc' = Capture(loc, result)
                /\ posted' = Without(posted, result.id)
                /\ UNCHANGED results
           ELSE /\ results' = Append(results, result)
                /\ loc' = [loc EXCEPT !.idx = @ + 1]
                /\ UNCHANGED posted
    /\ UNCHANGED <<request, process, started, worker, qs, instructions, intermediates,
                   owed, pc, stack, call, outcome>>
    /\ UNCHANGED mgr

\* Lines 274-279, after the last drained envelope: raise the captured error, or
\* return the captured result unless it is None, or sleep.
Wait274 ==
    /\ pc = "wait_259"
    /\ loc.idx > Len(loc.all_results)
    /\ IF loc.to_raise /= NoneVal
       THEN /\ Raise("RemoteError", loc.to_raise, 275)
            /\ owed' = owed \ {loc.id}
       ELSE IF loc.to_return /= NoneVal
       THEN /\ Return(loc.to_return, [loc EXCEPT !.all_results = <<>>, !.idx = 0,
                                                 !.to_return = NoneVal, !.got = FALSE],
                        277)
            /\ owed' = (owed \ {loc.id}) \cup Others(loc.all_results \o results, loc.id)
       ELSE /\ pc' = "wait_280"
            /\ loc' = [loc EXCEPT !.all_results = <<>>, !.idx = 0,
                                  !.clock = Sleep(loc.clock, 1)]
            /\ UNCHANGED <<stack, outcome, call, owed>>
    /\ UNCHANGED <<request, process, started, worker, chans, posted>>
    /\ UNCHANGED mgr

\* Lines 280-281, after the sleep.
Wait280 ==
    /\ pc = "wait_280"
    /\ IF WaitExpired(loc.clock, loc.timeout)
       THEN Raise("TimeoutError", <<"timed_out", 0>>, 281)
       ELSE /\ pc' = "wait_249"
            /\ UNCHANGED <<stack, loc, outcome, call>>
    /\ UNCHANGED <<request, process, started, worker, chans, hist>>
    /\ UNCHANGED mgr

\* -------------------------------------------------------------------- invoke
\* Line 287: dispatch has returned the id; wait for it.
Invoke287 ==
    /\ pc = "invoke_287"
    /\ pc' = "wait_249"
    /\ loc' = [loc EXCEPT !.id = loc.ret[2], !.clock = 0, !.ret = NoneVal]
    /\ UNCHANGED <<request, process, started, worker, chans, hist, stack, call, outcome>>
    /\ UNCHANGED mgr

\* ----------------------------------------------------------------- keepalive
\* Lines 189-197.
Keepalive189 ==
    /\ pc = "keepalive_189"
    /\ IF process = 0
       THEN Return(False, loc, 190) /\ Keep
       ELSE IF ~ProcAlive
       THEN Return(False, loc, 194) /\ Teardown
       ELSE IF instructions /= <<>>
       THEN Return(True, loc, 201) /\ Keep
       ELSE /\ pc' = "dispatch_207"
            /\ stack' = <<"invoke_287", "keepalive_198">>
            /\ loc' = [loc EXCEPT !.action = "ping", !.spawn = TRUE,
                                  !.timeout = NoTimeout]
            /\ UNCHANGED <<outcome, call>>
            /\ Keep
    /\ UNCHANGED <<request, started, worker>>
    /\ UNCHANGED mgr

\* A keepalive that accepts whatever the worker answers.
PingOk_Always(r) == TRUE

\* Line 198: the reply is the one expected.
PingOk(r) == r[1] = "pong"

\* Lines 198-201: the reply to the ping.
Keepalive198 ==
    /\ pc = "keepalive_198"
    /\ IF ~PingOk(loc.ret)
       THEN /\ pc' = "term_156"
            /\ stack' = <<"keepalive_200">>
            /\ loc' = [loc EXCEPT !.timeout = DefaultTimeout]
            /\ UNCHANGED <<outcome, call>>
       ELSE Return(True, loc, 201)
    /\ UNCHANGED <<request, process, started, worker, chans, hist>>
    /\ UNCHANGED mgr

\* Line 200, after terminate_process has returned.
Keepalive200 ==
    /\ pc = "keepalive_200"
    /\ Raise("IOError", <<"bad_ping", 0>>, 200)
    /\ UNCHANGED <<request, process, started, worker, chans, hist>>
    /\ UNCHANGED mgr

\* --------------------------------------------------------- terminate_process
\* A terminate_process without the early return for a missing handle.
TerminateEntry_AlwaysStop(p, al) ==
    IF p = 0 \/ p \in al THEN "stop" ELSE "cleanup"

\* Lines 156-159: where terminate_process goes first.
TerminateEntry(p, al) ==
    IF p = 0 THEN "return"
    ELSE IF p \in al THEN "stop"
    ELSE "cleanup"

\* Line 166: the timeout is longer than the time waited.
TermKill(c, t) == t /= NoTimeout /\ t > c

\* Lines 156-162: nothing to do without a handle; a dead process is cleaned up
\* (lines 172 and 177 see it dead too); an alive one is sent "stop".
Term156 ==
    /\ pc = "term_156"
    /\ LET go == TerminateEntry(process, aliveSet)
       IN  IF go = "return"
           THEN Return(NoneVal, loc, 157) /\ Keep
           ELSE IF go = "cleanup"
           THEN Return(NoneVal, loc, 183) /\ Teardown
           ELSE /\ pc' = "dispatch_207"
                /\ stack' = <<"term_163">> \o stack
                /\ loc' = [loc EXCEPT !.clock = 0, !.kills = 0, !.action = "stop",
                                      !.spawn = TRUE]
                /\ UNCHANGED <<outcome, call>>
                /\ Keep
    /\ UNCHANGED <<request, started, worker>>
    /\ UNCHANGED mgr

\* Line 163: the sleep after "stop" was dispatched.
Term163 ==
    /\ pc = "term_163"
    /\ pc' = "term_164"
    /\ loc' = [loc EXCEPT !.clock = Sleep(loc.clock, 1), !.ret = NoneVal]
    /\ UNCHANGED <<request, process, started, worker, chans, hist, stack, call, outcome>>
    /\ UNCHANGED mgr

\* Lines 164-171, one turn of the loop.  A process seen dead here is dead at
\* lines 172 and 177 too, and lines 180-183 follow.
Term164 ==
    /\ pc = "term_164"
    /\ IF ~ProcAlive
       THEN Return(NoneVal, loc, 183) /\ Teardown
       ELSE /\ Keep
            /\ UNCHANGED <<stack, outcome, call>>
            /\ IF TermKill(loc.clock, loc.timeout)
               THEN /\ pc' = "term_172"
                    /\ loc' = [loc EXCEPT !.kills = @ + 1, !.clock = Sleep(loc.clock, 1)]
               ELSE /\ pc' = "term_164"
                    /\ loc' = [loc EXCEPT !.clock = Sleep(loc.clock, 1)]
    /\ UNCHANGED <<request, started, worker>>
    /\ UNCHANGED mgr

\* Lines 172-175: a process still alive is sent the signal once more.
Term172 ==
    /\ pc = "term_172"
    /\ IF ~ProcAlive
       THEN Return(NoneVal, loc, 183) /\ Teardown
       ELSE /\ Keep
            /\ UNCHANGED <<stack, outcome, call>>
            /\ pc' = "term_177"
            /\ loc' = [loc EXCEPT !.kills = @ + 1, !.clock = Sleep(loc.clock, 1)]
    /\ UNCHANGED <<request, started, worker>>
    /\ UNCHANGED mgr

\* A terminate_process that releases the handle and the queues whatever
\* became of the process.
TerminateExit_AlwaysCleanup(alive) == "cleanup"

\* Line 177: a process alive after the signals makes terminate_process raise.
TerminateExit(alive) == IF alive THEN "raise" ELSE "cleanup"

\* Lines 177-183.
Term177 ==
    /\ pc = "term_177"
    /\ IF TerminateExit(ProcAlive) = "raise"
       THEN Raise("IOError", <<"unkillable", 0>>, 178) /\ Keep
       ELSE Return(NoneVal, loc, 183) /\ Teardown
    /\ UNCHANGED <<request, started, worker>>
    /\ UNCHANGED mgr

\* --------------------------------------------------------- last_intermediate
CallLast ==
    /\ pc = "idle"
    /\ \E k \in 1..MaxRequests :
          /\ call' = [op |-> "last_intermediate", id |-> k, timeout |-> NoTimeout,
                      flag |-> FALSE]
          /\ loc' = [InitLoc EXCEPT !.id = k]
    /\ pc' = "last_223"
    /\ outcome' = NoOutcome
    /\ UNCHANGED <<request, process, started, worker, chans, hist, stack>>
    /\ UNCHANGED mgr

\* Lines 219-227: the intermediates queue is drained into all_steps
\* (check_get_queue creates the queue when it is missing and no process is alive,
\* after is_alive() has cleaned up a dead handle).
Last223 ==
    /\ pc = "last_223"
    /\ IF "intermediates" \notin qs /\ ProcAlive
       THEN /\ Keep
            /\ Raise("IOError", <<"queue_missing", 0>>, 56)
       ELSE /\ IF "intermediates" \in qs
               THEN UNCHANGED <<process, qs, instructions, results, posted, owed>>
               ELSE IF process /= 0
               THEN /\ process' = 0
                    /\ qs' = {"intermediates"}
                    /\ instructions' = <<>>
                    /\ results' = <<>>
                    /\ posted' = <<>>
                    /\ owed' = {}
               ELSE /\ qs' = qs \cup {"intermediates"}
                    /\ UNCHANGED <<process, instructions, results, posted, owed>>
            /\ intermediates' = <<>>
            /\ loc' = [loc EXCEPT !.all_steps = IF "intermediates" \in qs
                                                THEN intermediates ELSE <<>>,
                                  !.idx = 1, !.intermediate_data = NoData]
            /\ pc' = "last_228"
            /\ UNCHANGED <<stack, outcome, call>>
    /\ UNCHANGED <<request, started, worker>>
    /\ UNCHANGED mgr

\* A last_intermediate that merges every envelope, whatever its id.
StepMatches_Any(step, id) == TRUE

\* Line 230: the envelope belongs to the request asked for.
StepMatches(step, id) == step.id = id

\* A merge in which the first value seen for a key stays.
Merge233_KeepFirst(d, step) ==
    Data([k \in DOMAIN d.fields \cup DOMAIN step.data |->
             IF k \in DOMAIN d.fields THEN d.fields[k] ELSE step.data[k]])

\* Lines 231-235: intermediate_data after a matching envelope: every key the
\* envelope carries is set to the envelope's value.
Merge233(d, step) ==
    Data([k \in DOMAIN d.fields \cup DOMAIN step.data |->
             IF k \in DOMAIN step.data THEN step.data[k] ELSE d.fields[k]])

\* Lines 228-238, one drained envelope: merge it when its id matches, put it back
\* on the queue otherwise.
Last228 ==
    /\ pc = "last_228"
    /\ loc.idx <= Len(loc.all_steps)
    /\ LET step == loc.all_steps[loc.idx]
       IN  IF StepMatches(step, loc.id)
           THEN /\ loc' = [loc EXCEPT !.intermediate_data = Merge233(@, step),
                                      !.idx = @ + 1]
                /\ UNCHANGED intermediates
           ELSE /\ intermediates' = Append(intermediates, step)
                /\ loc' = [loc EXCEPT !.idx = @ + 1]
    /\ UNCHANGED <<request, process, started, worker, qs, instructions, results,
                   hist, pc, stack, call, outcome>>
    /\ UNCHANGED mgr

\* Line 239: None, or the merged snapshot with the id.
Last239 ==
    /\ pc = "last_228"
    /\ loc.idx > Len(loc.all_steps)
    /\ Return(IF loc.intermediate_data.some
              THEN <<loc.intermediate_data.fields, loc.id>>
              ELSE NoneVal, loc, 239)
    /\ UNCHANGED <<request, process, started, worker, chans, hist>>
    /\ UNCHANGED mgr

\* -------------------------------------------------------- check_delete_queue
\* del engine.instructions / results / intermediates (the deleters, lines 76-109).
CallDelete ==
    /\ pc = "idle"
    /\ \E q \in QueueNames :
          /\ call' = [op |-> "delete", id |-> 0, timeout |-> NoTimeout, flag |-> FALSE]
          /\ loc' = [InitLoc EXCEPT !.queue = q]
    /\ pc' = "delete_64"
    /\ outcome' = NoOutcome
    /\ UNCHANGED <<request, process, started, worker, chans, hist, stack>>
    /\ UNCHANGED mgr

\* A check_delete_queue that does not ask whether the process is alive.
DeleteRefused_Never(alive) == FALSE

\* Line 65: a queue is not deleted while the process is alive.
DeleteRefused(alive) == alive

\* Lines 64-67.  is_alive() on a dead handle runs terminate_process, which deletes
\* the handle and the three queues, the one asked for included: delattr then
\* finds no attribute and raises AttributeError.
Delete64 ==
    /\ pc = "delete_64"
    /\ IF loc.queue \notin qs
       THEN Return(NoneVal, loc, 64) /\ Keep
       ELSE IF DeleteRefused(ProcAlive)
       THEN Raise("IOError", <<"queue_in_use", 0>>, 66) /\ Keep
       ELSE IF process /= 0 /\ ~ProcAlive
       THEN Raise("AttributeError", <<"no_attribute", 0>>, 67) /\ Teardown
       ELSE /\ Return(NoneVal, loc, 67)
            /\ qs' = qs \ {loc.queue}
            /\ instructions' = IF loc.queue = "instructions" THEN <<>> ELSE instructions
            /\ results' = IF loc.queue = "results" THEN <<>> ELSE results
            /\ intermediates' = IF loc.queue = "intermediates" THEN <<>> ELSE intermediates
            /\ posted' = IF loc.queue = "results" THEN <<>> ELSE posted
            /\ owed' = IF loc.queue = "results" THEN {} ELSE owed
            /\ UNCHANGED process
    /\ UNCHANGED <<request, started, worker>>
    /\ UNCHANGED mgr

\* -------------------------------------------------------------------- worker
\* What the worker may answer to an instruction.
Replies(e) ==
    IF e.action = "ping"
    THEN {[id |-> e.id, kind |-> "result", val |-> Pong(e.id)],
          [id |-> e.id, kind |-> "result", val |-> BadPong(e.id)]}
    ELSE {[id |-> e.id, kind |-> "result", val |-> Res(e.id)],
          [id |-> e.id, kind |-> "result", val |-> NoneVal],
          [id |-> e.id, kind |-> "error", val |-> Err(e.id)]}

\* The worker takes the next instruction off the instructions queue.
WorkerTake ==
    /\ \E w \in aliveSet :
          /\ wcur[w] = NoInstr
          /\ instructions /= <<>>
          /\ wcur' = [wcur EXCEPT ![w] = Head(instructions)]
          /\ instructions' = Tail(instructions)
    /\ UNCHANGED <<request, process, started, aliveSet, qs, results, intermediates,
                   pc, stack, loc, call, outcome, hist>>
    /\ UNCHANGED mgr

\* The worker posts the result or the error of the instruction it holds.
WorkerReply ==
    /\ \E w \in aliveSet :
          /\ wcur[w] /= NoInstr
          /\ wcur[w].action /= "stop"
          /\ \E r \in Replies(wcur[w]) : results' = Append(results, r)
          /\ posted' = Append(posted, wcur[w].id)
          /\ wcur' = [wcur EXCEPT ![w] = NoInstr]
    /\ UNCHANGED <<request, process, started, aliveSet, qs, instructions, intermediates,
                   pc, stack, loc, call, outcome, owed>>
    /\ UNCHANGED mgr

\* The worker posts a progress snapshot of the instruction it holds, while fewer
\* than cap envelopes are on the intermediates queue or in the hands of a running
\* last_intermediate.
WorkerPost(cap) ==
    /\ \E w \in aliveSet :
          /\ wcur[w] /= NoInstr
          /\ wcur[w].action = "invoke"
          /\ Len(intermediates) + Len(loc.all_steps) < cap
          /\ intermediates' = Append(intermediates,
                                     [id |-> wcur[w].id, data |-> [k \in {"step"} |-> 1]])
    /\ UNCHANGED <<request, process, started, worker, qs, instructions, results,
                   pc, stack, loc, call, outcome, hist>>
    /\ UNCHANGED mgr

WorkerProgress == WorkerPost(MaxProgress)

\* The worker posts a snapshot while last_intermediate runs or between two calls.
WorkerSnapshot == WorkerPost(MaxSteps + 1)

\* The worker process ends: it obeys "stop", is killed by a signal, or crashes.
WorkerExit ==
    /\ \E w \in aliveSet :
          /\ aliveSet' = aliveSet \ {w}
          /\ wcur' = [wcur EXCEPT ![w] = NoInstr]
    /\ UNCHANGED <<request, process, started, chans, pc, stack, loc, call, outcome, hist>>
    /\ UNCHANGED mgr

\* ------------------------------------------------------------- specification
Next ==
    \/ CallSpawn \/ CallIsAlive \/ CallTerminate \/ CallKeepalive
    \/ CallDispatch \/ CallWait \/ CallInvoke
    \/ Spawn119 \/ Spawn133 \/ IsAlive143
    \/ Dispatch207 \/ Dispatch209
    \/ Wait249 \/ Wait259 \/ Wait274 \/ Wait280 \/ Invoke287
    \/ Keepalive189 \/ Keepalive198 \/ Keepalive200
    \/ Term156 \/ Term163 \/ Term164 \/ Term172 \/ Term177
    \/ CallDelete \/ Delete64
    \/ WorkerTake \/ WorkerReply \/ WorkerProgress \/ WorkerExit

Spec == Init /\ [][Next]_vars

\* ------------------------------------------- specification: last_intermediate
\* The progress envelopes the worker can post.
ProgressEnvelopes == [id : 1..MaxRequests, data : ProgressData]

\* The contents the intermediates queue can have: up to MaxSteps envelopes.
ProgressQueues == UNION {[1..n -> ProgressEnvelopes] : n \in 0..MaxSteps}

\* A controller that has dispatched its requests to a running worker, which has
\* posted progress envelopes and holds an instruction or none; or a controller
\* that never started a worker.
InitProgress ==
    /\ started \in {0, 1}
    /\ process = started
    /\ aliveSet = 1..started
    /\ request = IF started = 1 THEN MaxRequests ELSE 0
    /\ qs = IF started = 1 THEN QueueNames ELSE {}
    /\ wcur \in {[w \in 1..(MaxSpawns + 1) |->
                     IF w = 1 /\ started = 1 /\ k > 0
                     THEN [id |-> k, action |-> "invoke"] ELSE NoInstr] :
                 k \in 0..MaxRequests}
    /\ intermediates \in IF started = 1 THEN ProgressQueues ELSE {<<>>}
    /\ instructions = <<>>
    /\ results = <<>>
    /\ pc = "idle"
    /\ stack = <<>>
    /\ loc = InitLoc
    /\ call = NoCall
    /\ outcome = NoOutcome
    /\ posted = <<>>
    /\ owed = {}
    /\ manager = NoManager
    /\ keyed = NoKeyed
    /\ pm = NoPm
    /\ refine = NoRefine
    /\ waiters = NoWaiters

NextProgress ==
    \/ CallLast \/ Last223 \/ Last228 \/ Last239
    \/ WorkerSnapshot

SpecProgress == InitProgress /\ [][NextProgress]_vars

\* ------------------------------------------------------- manager: cache keys
\* Strings are sequences of characters.  The characters the keys are built from
\* and str.__lt__ compares by code point.
CharCode(c) ==
    CASE c = "-" -> 45 [] c = "1" -> 49 [] c = "2" -> 50 [] c = "3" -> 51
      [] c = ":" -> 58 [] c = "=" -> 61 [] c = "a" -> 97 [] c = "b" -> 98

\* s < t for strings.
RECURSIVE StrLess(_, _)
StrLess(s, t) ==
    IF t = <<>> THEN FALSE
    ELSE IF s = <<>> THEN TRUE
    ELSE IF Head(s) /= Head(t) THEN CharCode(Head(s)) < CharCode(Head(t))
    ELSE StrLess(Tail(s), Tail(t))

\* str(n) of the small integers the model uses as sizes and strengths.
Str(n) == <<CASE n = 1 -> "1" [] n = 2 -> "2" [] n = 3 -> "3">>

\* sep.join(parts).
RECURSIVE Join(_, _)
Join(sep, parts) ==
    IF parts = <<>> THEN <<>>
    ELSE IF Len(parts) = 1 THEN parts[1]
    ELSE parts[1] \o sep \o Join(sep, Tail(parts))

\* key=lambda lora_part: lora_part[0]: the weights are compared by name alone.
ByName(x, y) == StrLess(x[1], y[1])

\* x put into the sorted list l behind every entry that is not greater: one step
\* of a stable sort (sorted() is stable).
RECURSIVE InsertWeight(_, _)
InsertWeight(x, l) ==
    IF l = <<>> THEN <<x>>
    ELSE IF ByName(x, Head(l)) THEN <<x>> \o l
    ELSE <<Head(l)>> \o InsertWeight(x, Tail(l))

\* sorted(weights, key=lambda part: part[0]).
RECURSIVE SortedWeights(_)
SortedWeights(l) ==
    IF l = <<>> THEN <<>>
    ELSE InsertWeight(l[Len(l)], SortedWeights(SubSeq(l, 1, Len(l) - 1)))

RECURSIVE InsertName(_, _)
InsertName(x, l) ==
    IF l = <<>> THEN <<x>>
    ELSE IF StrLess(x, Head(l)) THEN <<x>> \o l
    ELSE <<Head(l)>> \o InsertName(x, Tail(l))

\* sorted(inversion).
RECURSIVE SortedNames(_)
SortedNames(l) ==
    IF l = <<>> THEN <<>>
    ELSE InsertName(l[Len(l)], SortedNames(SubSeq(l, 1, Len(l) - 1)))

\* ":".join("=".join([str(part) for part in weight]) for weight in sorted(...)).
WeightsString(weights) ==
    LET sorted == SortedWeights(weights)
    IN  Join(<<":">>, [i \in 1..Len(sorted) |->
                          Join(<<"=">>, <<sorted[i][1], Str(sorted[i][2])>>)])

\* ":".join(sorted(inversion)).
InversionString(inversion) == Join(<<":">>, SortedNames(inversion))

\* The string that is hashed (the same expression in the three functions).
CanonicalString(size, lora, lycoris, inversion) ==
    Join(<<"-">>, <<Str(size), WeightsString(lora), WeightsString(lycoris),
                   InversionString(inversion)>>)

\* md5(...).hexdigest(), taken as injective: the digest stands for its input.
Md5(str) == <<"md5", str>>

get_clip_key(size, lora, lycoris, inversion) ==
    Md5(CanonicalString(size, lora, lycoris, inversion))
get_unet_key(size, lora, lycoris, inversion) ==
    Md5(CanonicalString(size, lora, lycoris, inversion))
get_controlled_unet_key(size, lora, lycoris, inversion) ==
    Md5(CanonicalString(size, lora, lycoris, inversion))

\* ------------------------------------------------ specification: cache keys
\* Resolutions, names and strengths the keys are computed for.  The names of
\* the textual inversions are a plain one and three that hold the character the
\* names are joined with (a name is the base name of a file, any string).
Sizes == {1, 2}
WeightNames == {<<"a">>, <<"b">>}
Strengths == {1, 2}
Weights == WeightNames \X Strengths
InversionNames == {<<"a">>, <<":", "a">>, <<"a", ":">>, <<":", "a", ":">>}

\* The lists of at most n elements of S.
Lists(S, n) == UNION {[1..k -> S] : k \in 0..n}

Configurations ==
    [size : Sizes, lora : Lists(Weights, MaxWeights),
     lycoris : Lists(Weights, MaxWeights - 1),
     inversion : Lists(InversionNames, MaxWeights)]

\* The orderings of the list l.
Reordered(l) == {[i \in 1..Len(l) |-> l[f[i]]] : f \in Permutations(1..Len(l))}

\* l with one element more (when it holds fewer than n), or one less.
Inserted(l, S, n) ==
    IF Len(l) >= n THEN {}
    ELSE {SubSeq(l, 1, k) \o <<e>> \o SubSeq(l, k + 1, Len(l)) : k \in 0..Len(l), e \in S}
Removed(l) == {SubSeq(l, 1, k - 1) \o SubSeq(l, k + 1, Len(l)) : k \in 1..Len(l)}

\* The lists that differ from l in one element: the name or the strength of one
\* weight, the name of one inversion, one entry added or removed.
OneWeightChanged(l, n) ==
    UNION {{[l EXCEPT ![k] = e] :
               e \in {w \in Weights : /\ w /= l[k]
                                      /\ w[1] = l[k][1] \/ w[2] = l[k][2]}} :
           k \in 1..Len(l)}
        \cup Inserted(l, Weights, n) \cup Removed(l)
OneNameChanged(l, n) ==
    UNION {{[l EXCEPT ![k] = e] : e \in InversionNames \ {l[k]}} : k \in 1..Len(l)}
        \cup Inserted(l, InversionNames, n) \cup Removed(l)

InitKeys ==
    /\ keyed \in {[op |-> "config", rel |-> "none", a |-> c, b |-> c,
                   ka |-> <<>>, kb |-> <<>>] : c \in Configurations}
    /\ manager = NoManager
    /\ pm = NoPm
    /\ refine = NoRefine
    /\ waiters = NoWaiters
    /\ request = 0
    /\ process = 0
    /\ started = 0
    /\ aliveSet = {}
    /\ wcur = [w \in 1..(MaxSpawns + 1) |-> NoInstr]
    /\ qs = {}
    /\ instructions = <<>>
    /\ results = <<>>
    /\ intermediates = <<>>
    /\ pc = "idle"
    /\ stack = <<>>
    /\ loc = InitLoc
    /\ call = NoCall
    /\ outcome = NoOutcome
    /\ posted = <<>>
    /\ owed = {}

\* A second configuration whose lists are the first one's in another order.
Permute ==
    /\ keyed.op = "config"
    /\ \E lo \in Reordered(keyed.a.lora), ly \in Reordered(keyed.a.lycoris),
          iv \in Reordered(keyed.a.inversion) :
          keyed' = [keyed EXCEPT !.op = "pair", !.rel = "permuted",
                                 !.b = [keyed.a EXCEPT !.lora = lo, !.lycoris = ly,
                                                       !.inversion = iv]]
    /\ UNCHANGED <<engineVars, manager, pm, refine, waiters>>

\* A second configuration that differs from the first in one element.
ChangeOne ==
    /\ keyed.op = "config"
    /\ \E c \in {[keyed.a EXCEPT !.size = z] : z \in Sizes \ {keyed.a.size}}
            \cup {[keyed.a EXCEPT !.lora = l] :
                     l \in OneWeightChanged(keyed.a.lora, MaxWeights)}
            \cup {[keyed.a EXCEPT !.lycoris = l] :
                     l \in OneWeightChanged(keyed.a.lycoris, MaxWeights - 1)}
            \cup {[keyed.a EXCEPT !.inversion = l] :
                     l \in OneNameChanged(keyed.a.inversion, MaxWeights)} :
          keyed' = [keyed EXCEPT !.op = "pair", !.rel = "changed", !.b = c]
    /\ UNCHANGED <<engineVars, manager, pm, refine, waiters>>

\* The three keys of a configuration.
Keys(c) ==
    [clip |-> get_clip_key(c.size, c.lora, c.lycoris, c.inversion),
     unet |-> get_unet_key(c.size, c.lora, c.lycoris, c.inversion),
     controlled_unet |-> get_controlled_unet_key(c.size, c.lora, c.lycoris, c.inversion)]

\* The keys of the two configurations are computed.
ComputeKeys ==
    /\ keyed.op = "pair"
    /\ keyed' = [keyed EXCEPT !.op = "keys", !.ka = Keys(keyed.a), !.kb = Keys(keyed.b)]
    /\ UNCHANGED <<engineVars, manager, pm, refine, waiters>>

NextKeys == Permute \/ ChangeOne \/ ComputeKeys

SpecKeys == InitKeys /\ [][NextKeys]_vars

\* -------------------------------------------------------------------- claims
\* The ids of the envelopes of q.
Ids(q) == {q[i].id : i \in 1..Len(q)}

\* The place of id n in the sequence of ids q (0 when it is not there).
Pos(q, n) == IF \E i \in 1..Len(q) : q[i] = n
             THEN CHOOSE i \in 1..Len(q) : q[i] = n
             ELSE 0

\* The controller is at lines 274-279 of wait: every drained envelope was handled.
AtDecision == pc = "wait_259" /\ loc.idx > Len(loc.all_results)

\* The drained envelopes tagged with the id waited for, of one kind.
Mine(kind) ==
    {i \in 1..Len(loc.all_results) :
        loc.all_results[i].id = loc.id /\ loc.all_results[i].kind = kind}

\* The running method hands v to its caller, or to the user from the given line.
Hands(v, line) ==
    IF stack = <<>>
    THEN pc' = "idle" /\ outcome'.kind = "return" /\ outcome'.val = v /\ outcome'.at = line
    ELSE pc' = Head(stack) /\ loc'.ret = v

\* What the controller owns and shares with the worker: handle, processes,
\* channels and their contents, id counter.
engine == <<process, started, aliveSet, qs, instructions, results, intermediates, request>>

\* C1: wait(k) returns, or raises from, only an envelope whose id is k: the value
\* it captures, returns to the user or to keepalive, or raises, is the payload of
\* the envelope tagged k, whatever other envelopes are on the results channel.
C1_WaitTakesOnlyOwnEnvelope ==
    /\ outcome.at \in {275, 277} => outcome.val[2] = outcome.id
    /\ pc = "wait_259" =>
          /\ loc.to_return /= NoneVal => loc.to_return[2] = loc.id
          /\ loc.to_raise /= NoneVal => loc.to_raise[2] = loc.id
    /\ pc = "keepalive_198" => loc.ret[2] = loc.id

\* C1 witness: wait(2) has returned its result while the envelope of request 1,
\* posted before it, is on the results channel.
C1_Witness ==
    /\ outcome.op = "wait" /\ outcome.at = 277 /\ outcome.id = 2
    /\ 1 \in Ids(results)

\* C2: once a wait has returned a result, every envelope of another id that was
\* on the results channel during that call stays on the channel (or is in the
\* hands of a running wait that has drained it) until a wait for its own id
\* returns or raises it.  owed holds the ids of these envelopes; a teardown of
\* the channels of a dead worker ends the obligation.
C2_BystandersAreReturned ==
    \A j \in owed :
        \/ j \in Ids(results)
        \/ /\ pc = "wait_259"
           /\ \/ \E i \in loc.idx..Len(loc.all_results) : loc.all_results[i].id = j
              \/ loc.id = j /\ (loc.to_return /= NoneVal \/ loc.to_raise /= NoneVal)

\* C3: wait never changes the relative order of the envelopes on the results
\* channel: any two of them lie in the order in which the worker posted them,
\* also when the worker posts one between the drain and the requeue.
C3_OrderKept ==
    \A i, j \in 1..Len(results) :
        i < j => Pos(posted, results[i].id) < Pos(posted, results[j].id)

\* C4: request ids are strictly increasing and never reused: no envelope
\* anywhere carries an id above the counter, the counter never decreases (also
\* when the channels are torn down and a worker is respawned), and every
\* instruction enqueued gets the counter's next value.
C4_IdsInUse ==
    Ids(instructions) \cup Ids(results) \cup Ids(loc.all_results) \cup Ids(intermediates)
        \cup {wcur[w].id : w \in DOMAIN wcur}

C4_IdsStrictlyIncrease ==
    [][/\ request' >= request
       /\ \A n \in C4_IdsInUse : n <= request
       /\ Len(instructions') > Len(instructions) =>
             /\ request' = request + 1
             /\ instructions'[Len(instructions')].id = request'
             /\ \A n \in C4_IdsInUse : n < request']_vars

\* C4 witness: the second worker has been started and the instruction enqueued
\* for it carries id 2.
C4_Witness ==
    /\ started = 2
    /\ process = 2
    /\ instructions /= <<>>
    /\ instructions[Len(instructions)].id = 2

\* C5: at most one worker process started by the controller is alive, and it is
\* the one the controller's single handle names.
C5_AtMostOneWorker ==
    /\ Cardinality(aliveSet) <= 1
    /\ aliveSet \subseteq {process}

\* C5 witness: a second worker runs after the first one is gone.
C5_Witness == started = 2 /\ aliveSet = {2} /\ process = 2

\* C6: in the poll in which wait(k) drains a result envelope tagged k (and no
\* error envelope tagged k), it returns that envelope's result, whatever the
\* value: the envelope is not consumed without being returned.
C6_DrainedResultIsReturned ==
    [][(AtDecision /\ pc' /= pc /\ Mine("result") /= {} /\ Mine("error") = {}) =>
          \E i \in Mine("result") : Hands(loc.all_results[i].val, 277)]_vars

\* C7: a wait(k) that drained an error envelope tagged k raises the error of that
\* envelope and returns nothing; an error it raises is the one tagged k; and the
\* envelopes of other ids drained in the poll, error envelopes included, are back
\* on the results channel when the poll ends, for wait(j) to raise.
C7_ErrorsRaisedByOwnWait ==
    [][/\ (AtDecision /\ pc' /= pc /\ Mine("error") /= {}) =>
             /\ pc' = "idle"
             /\ outcome'.kind = "RemoteError"
             /\ outcome'.at = 275
             /\ \E i \in Mine("error") : outcome'.val = loc.all_results[i].val
       /\ outcome'.kind = "RemoteError" => outcome'.val = Err(outcome'.id)
       /\ (AtDecision /\ pc' /= pc) =>
             \A i \in 1..Len(loc.all_results) :
                 loc.all_results[i].id /= loc.id =>
                     \E m \in 1..Len(results') : results'[m] = loc.all_results[i]]_vars

\* C7 witness: wait(1) has captured the error envelope of request 1, which stood
\* by on the channel while a wait for another id returned.
C7_Witness ==
    /\ pc = "wait_259"
    /\ loc.id = 1
    /\ 1 \in owed
    /\ loc.to_raise = Err(1)

\* C8: wait raises the timeout error only if no envelope tagged k was drained in
\* any poll of the call; and a wait that finds the worker dead at a poll raises
\* the lifecycle error.
C8_TimeoutOnlyWithoutEnvelope ==
    [][/\ (pc = "wait_280" /\ pc' = "idle") => ~loc.got
       /\ (pc = "wait_249" /\ pc' /= pc /\ ~ProcAlive) =>
             /\ pc' = "idle"
             /\ outcome'.kind = "IOError"
             /\ outcome'.at = 250]_vars

\* C9: spawn_process on a controller whose worker is alive raises when
\* fail_when_redundant is true and returns silently when it is false, and changes
\* neither the handle, the processes, the channels and their contents, nor the
\* id counter.
C9_RedundantSpawn ==
    [][(pc = "spawn_119" /\ pc' /= pc /\ ProcAlive) =>
          /\ UNCHANGED engine
          /\ IF loc.fail
             THEN pc' = "idle" /\ outcome'.kind = "IOError" /\ outcome'.at = 121
             ELSE Hands(NoneVal, 122)]_vars

\* C9 witness: a spawn with fail_when_redundant has raised on an alive worker
\* that holds an instruction, with a result on the channel.
C9_Witness ==
    /\ outcome.op = "spawn" /\ outcome.at = 121
    /\ ProcAlive
    /\ results /= <<>>

\* C10: terminate_process without a handle (never started, or already
\* terminated) raises nothing and changes nothing; and a terminate_process that
\* returns leaves no handle, so that a second call in a row is that no-op.
C10_TerminateIdempotent ==
    [][/\ (pc = "term_156" /\ pc' /= pc /\ process = 0) =>
             /\ UNCHANGED engine
             /\ Hands(NoneVal, 157)
       /\ (outcome'.op = "terminate" /\ outcome'.kind = "return") =>
             process' = 0]_vars

\* C10 witness: terminate_process has returned from line 157 on a controller
\* whose worker had been started and terminated, the id counter standing at 1.
C10_Witness ==
    /\ outcome.op = "terminate" /\ outcome.at = 157 /\ outcome.kind = "return"
    /\ started >= 1
    /\ request >= 1

\* C11: terminate_process sends "stop" first and sends the forced-kill signal
\* only to a worker still alive once the timeout has elapsed since the call
\* began: the first signal of a call is sent at a poll at which the time waited
\* exceeds the timeout, so that a worker that exits within the timeout is
\* never signalled.
C11_KillOnlyAfterTimeout ==
    [][(loc.kills = 0 /\ loc'.kills = 1) =>
          /\ pc = "term_164"
          /\ ProcAlive
          /\ WaitExpired(loc.clock, loc.timeout)]_vars

\* C12: a worker alive after the second forced-kill signal makes
\* terminate_process raise the lifecycle error; a call sends at most two signals;
\* and when it raises, the handle and the three queues are kept as they were.
C12_UnkillableRaises ==
    [][/\ (pc = "term_177" /\ pc' /= pc /\ ProcAlive) =>
             /\ pc' = "idle"
             /\ outcome'.kind = "IOError"
             /\ outcome'.at = 178
             /\ loc.kills = 2
             /\ UNCHANGED engine
       /\ loc'.kills <= 2
       /\ outcome'.at = 178 => process' /= 0 /\ qs' = QueueNames]_vars

\* C12 witness: terminate_process has raised on a worker that is still running
\* and never took the "stop" instruction off the queue.
C12_Witness ==
    /\ outcome.op = "terminate" /\ outcome.at = 178
    /\ ProcAlive
    /\ qs = QueueNames
    /\ instructions /= <<>>

\* C13: terminate_process completes after a bounded number of liveness polls
\* whatever the timeout, also when the worker never reacts: at every poll of the
\* loop that finds the worker alive, the branch that leaves the loop is taken
\* now or will be taken at a later poll by the passing of time alone.
C13_LoopHasExit ==
    (pc = "term_164" /\ ProcAlive) =>
        \E c \in loc.clock..(MaxTimeout + 1) : TermKill(c, loc.timeout)

\* C14: after is_alive or keepalive has returned false, wait has raised the
\* lifecycle error, spawn_process has raised because the worker did not become
\* responsive, or terminate_process has returned, the controller holds no handle
\* and none of the three queues.
C14_DeadMeansReleased ==
    (/\ pc = "idle"
     /\ \/ outcome.op \in {"is_alive", "keepalive"} /\ outcome.kind = "return"
                                                   /\ outcome.val = False
        \/ outcome.at \in {134, 250}
        \/ outcome.op = "terminate" /\ outcome.kind = "return")
    => (process = 0 /\ qs = {})

C16_ChannelsOfAliveWorker ==
    [][/\ aliveSet /= {} => qs = QueueNames
       /\ (pc = "delete_64" /\ pc' /= pc /\ ProcAlive) =>
             /\ pc' = "idle"
             /\ outcome'.kind = "IOError"
             /\ outcome'.at = 66
             /\ UNCHANGED engine]_vars

\* C16 witness: the deletion of a queue has been refused, the worker running and
\* the three queues in place.
C16_Witness ==
    /\ outcome.op = "delete" /\ outcome.at = 66
    /\ ProcAlive
    /\ qs = QueueNames

\* The number of times e occurs in q.
Count(q, e) == Cardinality({i \in 1..Len(q) : q[i] = e})

\* The drained progress envelopes tagged with the id asked for.
MySteps == {i \in 1..Len(loc.all_steps) : loc.all_steps[i].id = loc.id}

\* The last of them that carries key k.
LastWith(k) ==
    CHOOSE i \in MySteps :
        /\ k \in DOMAIN loc.all_steps[i].data
        /\ \A j \in MySteps : j > i => k \notin DOMAIN loc.all_steps[j].data

\* C17: last_intermediate(id) returns None when no envelope on the intermediates
\* queue is tagged id, and otherwise the snapshot that has, for every key carried
\* by an envelope tagged id, the value of the last such envelope that carries it,
\* and no other key; and every drained envelope tagged with another id is on the
\* queue when the call returns.
C17_LastIntermediate ==
    [][(pc = "last_228" /\ loc.idx > Len(loc.all_steps) /\ pc' /= pc) =>
          /\ pc' = "idle"
          /\ outcome'.kind = "return"
          /\ IF MySteps = {}
             THEN outcome'.val[2] = 0
             ELSE /\ outcome'.val[2] = loc.id
                  /\ outcome'.val[1] =
                        [k \in UNION {DOMAIN loc.all_steps[i].data : i \in MySteps} |->
                            loc.all_steps[LastWith(k)].data[k]]
          /\ \A i \in 1..Len(loc.all_steps) :
                i \notin MySteps =>
                    Count(intermediates', loc.all_steps[i]) >=
                        Count(loc.all_steps, loc.all_steps[i])]_vars

\* C17 witness: two envelopes of the id asked for were drained, the second
\* overwrote the first one's "step", and an envelope the worker posted during
\* the call is on the queue.
C17_Witness ==
    /\ pc = "last_228"
    /\ Len(loc.all_steps) = 2
    /\ loc.idx = 3
    /\ MySteps = {1, 2}
    /\ "step" \in DOMAIN loc.all_steps[1].data
    /\ "step" \in DOMAIN loc.all_steps[2].data
    /\ loc.all_steps[1].data["step"] /= loc.all_steps[2].data["step"]
    /\ loc.intermediate_data.fields["step"] = loc.all_steps[2].data["step"]
    /\ intermediates /= <<>>

\* C18: two configurations of the same resolution whose lists of weights are
\* permutations of each other have the same clip, unet and controlled-unet key,
\* also when a name occurs twice in a list with different strengths.
C18_PermutationsShareKey ==
    (keyed.op = "keys" /\ keyed.rel = "permuted") => keyed.ka = keyed.kb

\* C19: two configurations that differ in one element (the resolution, the name
\* or the strength of one weight, the name of one inversion, one entry added or
\* removed) have different canonical strings, hence different keys.
C19_SingleChangeChangesKey ==
    (keyed.op = "keys" /\ keyed.rel = "changed") =>
        /\ keyed.ka.clip /= keyed.kb.clip
        /\ keyed.ka.unet /= keyed.kb.unet
        /\ keyed.ka.controlled_unet /= keyed.kb.controlled_unet

\* ------------------------------------------------- the pipeline manager
\* manager.py: the lora, lycoris, inversion and chunking_size properties and
\* the base pipeline property. A path is a sequence of characters.

\* DiffusionPipelineManager.DEFAULT_CHUNK (manager.py:102) and another size.
ChunkSizes == {64, 32}
\* The weight of an entry given as a bare name (manager.py:1813, 1817).
DefaultWeight == 1

engine_lora_dir == <<"/", "l">>
engine_lycoris_dir == <<"/", "y">>

\* os.path.isabs and os.path.join (manager.py:1820-1821).
IsAbs(path) == path /= <<>> /\ path[1] = "/"
PathJoin(dir, path) == dir \o <<"/">> \o path

\* What a caller hands to the lora and lycoris setters: None, a name, a
\* (name, weight) tuple, or a list whose entries are names, tuples or lists.
LoraFiles == {<<"a">>, <<"/", "l", "/", "a">>}
LycorisFiles == {<<"a">>}
LoraStrengths == {1, 2}
LycorisStrengths == {1}
InversionFiles == {<<"a">>, <<"b">>}

WeightEntries(files, strengths) ==
    {[form |-> "str", name |-> n, weight |-> DefaultWeight] : n \in files}
        \cup [form : {"tuple", "list"}, name : files, weight : strengths]

WeightInputs(files, strengths) ==
    {[form |-> "none", items |-> <<>>]}
        \cup {[form |-> e.form, items |-> <<e>>] :
                e \in {x \in WeightEntries(files, strengths) : x.form /= "list"}}
        \cup {[form |-> "list", items |-> l] :
                l \in Lists(WeightEntries(files, strengths), MaxEntries)}

InversionLists == Lists(InversionFiles, MaxEntries)

InversionInputs ==
    {[form |-> "none", items |-> <<>>]}
        \cup {[form |-> "str", items |-> <<n>>] : n \in InversionFiles}
        \cup {[form |-> "list", items |-> l] : l \in InversionLists}

\* manager.py:1805-1822: the list of (path, weight) tuples a setter makes of
\* its argument; a relative path is joined to the directory.
NormaliseWeights(dir, new) ==
    [i \in 1..Len(new.items) |->
        <<IF IsAbs(new.items[i].name) THEN new.items[i].name
          ELSE PathJoin(dir, new.items[i].name),
          new.items[i].weight>>]

\* manager.py:1901-1902: a name becomes a list of one name.
NormaliseInversion(new) == new.items

NoPipeline == [id |-> 0, lora |-> <<>>, lycoris |-> <<>>, inversion |-> <<>>]

\* manager.py:1824, 1864, 1903: the stored list differs from the new one.
Differs(stored, new) == stored /= new

\* A manager as constructed: no _lora, _lycoris, _inversion, _pipeline; the
\* caller holds a list of names of its own.
InitManager ==
    /\ manager \in {[op |-> "init", val |-> <<>>, attrs |-> {},
                     lora |-> <<>>, lycoris |-> <<>>, inversion |-> <<>>,
                     aliased |-> FALSE, names |-> l, chunking_size |-> 64,
                     pipeline |-> NoPipeline, built |-> 0] : l \in InversionLists}
    /\ keyed = NoKeyed
    /\ pm = NoPm
    /\ refine = NoRefine
    /\ waiters = NoWaiters
    /\ request = 0
    /\ process = 0
    /\ started = 0
    /\ aliveSet = {}
    /\ wcur = [w \in 1..(MaxSpawns + 1) |-> NoInstr]
    /\ qs = {}
    /\ instructions = <<>>
    /\ results = <<>>
    /\ intermediates = <<>>
    /\ pc = "idle"
    /\ stack = <<>>
    /\ loc = InitLoc
    /\ call = NoCall
    /\ outcome = NoOutcome
    /\ posted = <<>>
    /\ owed = {}

\* unload_pipeline (manager.py:2469-2475) and the deleter (2178-2191).
Unloaded(m) == [m EXCEPT !.pipeline = NoPipeline]

\* The setter of lora or lycoris (manager.py:1794-1826, 1842-1874) applied to
\* the manager m: field is "lora" or "lycoris", attr the attribute's name.
SetWeights(m, field, attr, dir, new) ==
    IF new.form = "none"
    THEN [(IF attr \in m.attrs /\ Len(m[field]) > 0 THEN Unloaded(m) ELSE m)
            EXCEPT ![field] = <<>>, !.attrs = @ \cup {attr},
                   !.op = field, !.val = <<>>]
    ELSE LET list == NormaliseWeights(dir, new)
         IN  IF Differs(m[field], list)
             THEN [Unloaded(m) EXCEPT ![field] = list, !.attrs = @ \cup {attr},
                                      !.op = field, !.val = list]
             ELSE [m EXCEPT !.op = field, !.val = list]

SetLora(new) ==
    /\ manager.op /= "none"
    /\ manager' = SetWeights(manager, "lora", "_lora", engine_lora_dir, new)
    /\ UNCHANGED <<engineVars, keyed, pm, refine, waiters>>

SetLycoris(new) ==
    /\ manager.op /= "none"
    /\ manager' = SetWeights(manager, "lycoris", "_lycoris", engine_lycoris_dir, new)
    /\ UNCHANGED <<engineVars, keyed, pm, refine, waiters>>

\* The setter of inversion (manager.py:1890-1905). byReference: the argument
\* is the list object the caller holds (and may change later), which line 1905
\* stores as it is; otherwise it is a list no one else holds.
SetInversionOf(m, new, byReference) ==
    IF new.form = "none"
    THEN [(IF "_inversion" \in m.attrs /\ Len(m.inversion) > 0 THEN Unloaded(m) ELSE m)
            EXCEPT !.inversion = <<>>, !.attrs = @ \cup {"_inversion"},
                   !.aliased = FALSE, !.op = "inversion", !.val = <<>>]
    ELSE LET list == NormaliseInversion(new)
         IN  IF Differs(m.inversion, list)
             THEN [Unloaded(m) EXCEPT !.inversion = list,
                                      !.attrs = @ \cup {"_inversion"},
                                      !.aliased = byReference,
                                      !.op = "inversion", !.val = list]
             ELSE [m EXCEPT !.op = "inversion", !.val = list]

SetInversion(new) ==
    /\ manager.op /= "none"
    /\ manager' = SetInversionOf(manager, new, FALSE)
    /\ UNCHANGED <<engineVars, keyed, pm, refine, waiters>>

\* manager.inversion = names, names being the caller's own list.
SetInversionHeld ==
    /\ manager.op /= "none"
    /\ manager' = SetInversionOf(manager,
                      [form |-> "list", items |-> manager.names], TRUE)
    /\ UNCHANGED <<engineVars, keyed, pm, refine, waiters>>

\* The caller changes its own list in place; when _inversion is that very
\* list (manager.py:1905), the manager's inversion changes with it.
ChangeHeld ==
    /\ manager.op /= "none"
    /\ \E l \in InversionLists \ {manager.names} :
          manager' = [manager EXCEPT !.names = l,
                         !.inversion = IF manager.aliased THEN l ELSE @,
                         !.op = "names", !.val = l]
    /\ UNCHANGED <<engineVars, keyed, pm, refine, waiters>>

\* The setter of chunking_size (manager.py:633-638).
SetChunkingSize(n) ==
    /\ manager.op /= "none"
    /\ manager' = [manager EXCEPT !.chunking_size = n,
                                  !.op = "chunking_size", !.val = <<>>]
    /\ UNCHANGED <<engineVars, keyed, pm, refine, waiters>>

\* The pipeline property (manager.py:2085-2176): constructs an instance with
\* the weights of the moment when there is none, returns the one there is
\* otherwise.
GetPipeline ==
    /\ manager.op /= "none"
    /\ IF manager.pipeline = NoPipeline
       THEN /\ manager.built < MaxBuilds
            /\ manager' = [manager EXCEPT
                   !.built = @ + 1,
                   !.pipeline = [id |-> manager.built + 1, lora |-> manager.lora,
                                 lycoris |-> manager.lycoris,
                                 inversion |-> manager.inversion],
                   !.op = "pipeline", !.val = <<>>]
       ELSE manager' = [manager EXCEPT !.op = "pipeline", !.val = <<>>]
    /\ UNCHANGED <<engineVars, keyed, pm, refine, waiters>>

NextManager ==
    \/ \E new \in WeightInputs(LoraFiles, LoraStrengths) : SetLora(new)
    \/ \E new \in WeightInputs(LycorisFiles, LycorisStrengths) : SetLycoris(new)
    \/ \E new \in InversionInputs : SetInversion(new)
    \/ SetInversionHeld
    \/ ChangeHeld
    \/ \E n \in ChunkSizes : SetChunkingSize(n)
    \/ GetPipeline

SpecManager == InitManager /\ [][NextManager]_vars

\* C20: with the base pipeline loaded, a setter of lora, lycoris or inversion
\* called with a list other than the one the loaded instance was made with
\* (another strength, another entry) unloads it, and the next access of the
\* pipeline constructs a new instance from the lists of the moment (the count
\* of constructions grows by one); setting the chunking size, and an access
\* while an instance is loaded, leave the instance and the count as they are.
C20_ChangeForcesReconstruction ==
    [][/\ (/\ manager'.op \in {"lora", "lycoris", "inversion"}
           /\ manager.pipeline /= NoPipeline
           /\ manager'.val /= manager.pipeline[manager'.op])
          => manager'.pipeline = NoPipeline
       /\ (manager'.op = "pipeline" /\ manager.pipeline = NoPipeline)
          => /\ manager'.built = manager.built + 1
             /\ manager'.pipeline =
                    [id |-> manager'.built, lora |-> manager.lora,
                     lycoris |-> manager.lycoris, inversion |-> manager.inversion]
       /\ (manager'.op = "chunking_size"
           \/ (manager'.op = "pipeline" /\ manager.pipeline /= NoPipeline))
          => /\ manager'.pipeline = manager.pipeline
             /\ manager'.built = manager.built]_vars

\* ------------------------------------------- pipelines and generation calls
\* manager.py: the three pipelines (base, refiner, inpainter), their offloading,
\* the keepalive thread and __call__.

Variants == {"pipeline", "refiner", "inpainter"}
\* pipeline_switch_mode (manager.py:1493-1506); "none" stands for None.
SwitchModes == {"offload", "unload", "none"}
\* A refiner strength of zero, and the default of 0.3 in tenths (manager.py:1515).
Strengths10 == {0, 3}
\* The refiner_strength argument of __call__ (manager.py:2728): None or a number.
StrengthArgs == {[some |-> FALSE, value |-> 0]} \cup [some : {TRUE}, value : Strengths10]
\* Two configurations of the auxiliary weights (lora, lycoris, inversion).
WeightSets == {1, 2}

\* No _pipeline attribute, no _pipeline_is_offloaded attribute. An instance has
\* a number (id), the attribute _pipeline_is_offloaded ("unset", "true",
\* "false"), the auxiliary weights it was made with (0: none) and the scheduler
\* it uses ("unset": the one of its own configuration).
NoInstance == [id |-> 0, flag |-> "unset", made |-> 0, uses |-> "unset"]

\* The pipeline deleters (manager.py:2178-2191, 2313-2325, 2450-2460).
Deleted_KeepFlag(x) == [NoInstance EXCEPT !.flag = x.flag]
Deleted(x) == NoInstance

\* pipeline_is_offloaded, refiner_is_offloaded, inpainter_is_offloaded
\* (manager.py:2467, 2503, 2539).
IsOffloaded(x) == x.id /= 0 /\ x.flag = "true"
OnDevice(x) == x.id /= 0 /\ x.flag /= "true"

\* unload_pipeline, unload_refiner, unload_inpainter (manager.py:2469-2475,
\* 2505-2511, 2541-2547).
Unload(p, v) ==
    IF p.v[v].id /= 0 THEN [p EXCEPT !.v[v] = Deleted(p.v[v])] ELSE p

\* offload_pipeline, offload_refiner, offload_inpainter (manager.py:2477-2487,
\* 2513-2523, 2549-2559).
Offload_Unloads(p, v) == Unload(p, v)
Offload(p, v) ==
    IF p.v[v].id /= 0 /\ ~IsOffloaded(p.v[v])
    THEN [p EXCEPT !.v[v].flag = "true"] ELSE p

\* reload_pipeline, reload_refiner, reload_inpainter (manager.py:2489-2496,
\* 2525-2532, 2561-2568).
Reload(p, v) ==
    IF IsOffloaded(p.v[v]) THEN [p EXCEPT !.v[v].flag = "false"] ELSE p

\* The construction in the pipeline properties (manager.py:2090-2175,
\* 2199-2310, 2332-2447): a new instance on the device, with the auxiliary
\* weights of the moment unless the variant's engines are ready, and with the
\* scheduler of the moment (lines 2171-2172, 2306-2307, 2443-2444).
Construct(p, v) ==
    [p EXCEPT !.built[v] = @ + 1,
              !.v[v] = [id |-> p.built[v] + 1, flag |-> "unset",
                        made |-> IF v \in p.ready THEN 0 ELSE p.weights,
                        uses |-> p.scheduler]]

\* The pipeline properties: the instance there is, or a new one.
Access(p, v) == IF p.v[v].id = 0 THEN Construct(p, v) ELSE p

\* The setter of tensorrt_is_enabled (manager.py:1363-1370).
SetTensorrtEnabled(p, new) ==
    [(IF new /= p.tensorrt_enabled /\ "pipeline" \in p.ready
      THEN Unload(p, "pipeline") ELSE p) EXCEPT !.tensorrt_enabled = new]

\* start_keepalive (manager.py:227-234) and stop_keepalive (236-244).
StartKeepalive(p) ==
    IF p.thread /= "alive"
    THEN [p EXCEPT !.thread = "alive", !.running = @ + 1] ELSE p

StopNever(p) == p
StopKeepalive(p) ==
    IF p.thread = "none" THEN p
    ELSE [p EXCEPT !.thread = "none",
                   !.running = IF p.thread = "alive" THEN @ - 1 ELSE @]

\* A manager with no pipeline, no thread, between calls; the switch mode, the
\* refiner, its strength and the engines that are ready are its configuration.
\* History: disabled (the call has disabled TensorRT), invoked (the call has
\* run the refiner), swapped (the call has moved a pipeline for refinement),
\* kept (the instance a variant had when a call last switched away from it),
\* before (tensorrt_is_enabled when the call began).
Managers ==
    {[op |-> "init", arg |-> "", mode |-> m, refiner |-> r, refiner_strength |-> s,
      ready |-> e, tensorrt_enabled |-> TRUE, thread |-> "none", running |-> 0,
      weights |-> 1, v |-> [x \in Variants |-> NoInstance],
      built |-> [x \in Variants |-> 0],
      pc |-> "idle", mask |-> FALSE, strength |-> [some |-> FALSE, value |-> 0],
      disabled |-> FALSE, result |-> "none", invoked |-> FALSE, swapped |-> FALSE,
      kind |-> "none", device |-> "cuda", dtype |-> "unset", scheduler |-> "unset",
      kept |-> [x \in {"pipeline", "inpainter"} |-> 0], before |-> TRUE] :
        m \in SwitchModes, r \in BOOLEAN, s \in Strengths10,
        e \in {{}, {"pipeline"}}}

NoEngine ==
    /\ request = 0
    /\ process = 0
    /\ started = 0
    /\ aliveSet = {}
    /\ wcur = [w \in 1..(MaxSpawns + 1) |-> NoInstr]
    /\ qs = {}
    /\ instructions = <<>>
    /\ results = <<>>
    /\ intermediates = <<>>
    /\ pc = "idle"
    /\ stack = <<>>
    /\ loc = InitLoc
    /\ call = NoCall
    /\ outcome = NoOutcome
    /\ posted = <<>>
    /\ owed = {}

InitCall ==
    /\ pm \in Managers
    /\ NoEngine
    /\ manager = NoManager
    /\ keyed = NoKeyed
    /\ refine = NoRefine
    /\ waiters = NoWaiters

PmOnly == UNCHANGED <<engineVars, manager, keyed, refine, waiters>>
Idle == pm.op /= "none" /\ pm.pc = "idle"
Did(p, op, arg) == [p EXCEPT !.op = op, !.arg = arg]

\* ---- operations between calls
GetPipelineOf(v) ==
    /\ Idle
    /\ v = "refiner" => pm.refiner          \* manager.py:2197-2198 raises otherwise
    /\ pm.v[v].id = 0 => pm.built[v] < MaxBuilds
    /\ pm' = Did(Access(pm, v), "access", v)
    /\ PmOnly

OffloadOf(v) ==
    /\ Idle
    /\ pm' = Did(Offload(pm, v), "offload", v)
    /\ PmOnly

ReloadOf(v) ==
    /\ Idle
    /\ pm' = Did(Reload(pm, v), "reload", v)
    /\ PmOnly

UnloadOf(v) ==
    /\ Idle
    /\ pm' = Did(Unload(pm, v), "unload", v)
    /\ PmOnly

\* The setters of lora, lycoris and inversion (manager.py:1794-1905) with a
\* list that is, or is not, the stored one.
SetAuxiliary(w) ==
    /\ Idle
    /\ pm' = Did([(IF Differs(pm.weights, w) THEN Unload(pm, "pipeline") ELSE pm)
                    EXCEPT !.weights = w], "weights", "")
    /\ PmOnly

\* The heartbeat thread ends by itself (its callback raised).
ThreadEnds ==
    /\ pm.op /= "none"
    /\ pm.thread = "alive"
    /\ pm' = [pm EXCEPT !.thread = "dead", !.running = @ - 1]
    /\ PmOnly

\* ---- __call__ (manager.py:2726-2867), one action per stretch of lines
Own(p) == IF p.mask THEN "inpainter" ELSE "pipeline"
Other(p) == IF p.mask THEN "pipeline" ELSE "inpainter"
At(p, line) == [p EXCEPT !.pc = line, !.op = "call", !.arg = ""]
Raises(p) == [p EXCEPT !.pc = "c2865", !.kind = "raise", !.op = "call", !.arg = ""]

\* Lines 2740: the call begins and starts the heartbeat.
Call2740 ==
    /\ Idle
    /\ \E mask \in BOOLEAN, strength \in StrengthArgs :
          pm' = At([StartKeepalive(pm) EXCEPT
                        !.mask = mask, !.strength = strength, !.disabled = FALSE,
                        !.result = "none", !.invoked = FALSE, !.swapped = FALSE,
                        !.kind = "none", !.before = pm.tensorrt_enabled], "c2742")
    /\ PmOnly

\* Lines 2746, 2754: the pipeline of the call, constructed if absent.
Call2742 ==
    /\ pm.op /= "none" /\ pm.pc = "c2742"
    /\ \/ /\ pm.v[Own(pm)].id = 0 => pm.built[Own(pm)] < MaxBuilds
          /\ pm' = At([Access(pm, Own(pm)) EXCEPT !.kept[Own(pm)] = 0], "c2747")
       \/ /\ pm.v[Own(pm)].id = 0
          /\ pm' = Raises(pm)
    /\ PmOnly

\* Lines 2747-2751, 2755-2759: the other pipeline makes room.
SwitchAway(p, v) ==
    CASE p.mode = "offload" -> Offload(p, v)
      [] p.mode = "unload" -> Unload(p, v)
      [] OTHER -> p

Call2747 ==
    /\ pm.op /= "none" /\ pm.pc = "c2747"
    /\ pm' = At([Reload(SwitchAway(pm, Other(pm)), Own(pm)) EXCEPT
                    !.kept[Other(pm)] = pm.v[Other(pm)].id], "c2761")
    /\ PmOnly

\* Lines 2761-2775: width and height against the engine size (below, equal,
\* above) and the chunking size (0: disabled).
Incompatible(width, height, chunk_size) ==
    \/ width = "below"
    \/ height = "below"
    \/ (width /= "equal" \/ height /= "equal") /\ chunk_size = 0

Call2761 ==
    /\ pm.op /= "none" /\ pm.pc = "c2761"
    /\ \E width \in {"below", "equal", "above"}, height \in {"below", "equal", "above"},
          chunk_size \in {0, 64} :
          pm' = IF Incompatible(width, height, chunk_size)
                THEN At([SetTensorrtEnabled(pm, FALSE) EXCEPT !.disabled = TRUE], "c2777")
                ELSE At(pm, "c2777")
    /\ PmOnly

\* Lines 2777-2780: the pipeline again (constructed again if line 2766 unloaded it).
Call2777 ==
    /\ pm.op /= "none" /\ pm.pc = "c2777"
    /\ \/ /\ pm.v[Own(pm)].id = 0 => pm.built[Own(pm)] < MaxBuilds
          /\ pm' = At(Access(pm, Own(pm)), "c2782")
       \/ /\ pm.v[Own(pm)].id = 0
          /\ pm' = Raises(pm)
    /\ PmOnly

\* Lines 2782-2783: the heartbeat stops, the pipeline runs (or raises).
Call2782 ==
    /\ pm.op /= "none" /\ pm.pc = "c2782"
    /\ \/ pm' = At([StopKeepalive(pm) EXCEPT !.result = "primary"], "c2785")
       \/ pm' = Raises(StopKeepalive(pm))
    /\ PmOnly

\* Line 2786: refinement is skipped.
Skips(p) == p.strength.some /\ p.strength.value <= 0

\* Lines 2785-2804: a refiner and a strength: heartbeat, and the pipeline of
\* the call makes room for the refiner.
Call2785 ==
    /\ pm.op /= "none" /\ pm.pc = "c2785"
    /\ pm' = IF pm.refiner /\ ~Skips(pm)
             THEN LET q == StartKeepalive(pm)
                      r == CASE q.mode = "offload" -> Reload(Offload(q, Own(q)), "refiner")
                             [] q.mode = "unload" -> Unload(q, Own(q))
                             [] OTHER -> q
                  IN  At([r EXCEPT !.swapped = (q.mode /= "none")], "c2806")
             ELSE At(pm, "c2864")
    /\ PmOnly

\* Lines 2806-2857, for one image: not refined when flagged; else the heartbeat
\* stops and the refiner pipeline (constructed if absent) refines it, or raises.
Call2806 ==
    /\ pm.op /= "none" /\ pm.pc = "c2806"
    /\ \/ pm' = At(pm, "c2858")
       \/ /\ pm.v["refiner"].id = 0 => pm.built["refiner"] < MaxBuilds
          /\ pm' = At([Access(StopKeepalive(pm), "refiner") EXCEPT
                          !.invoked = TRUE, !.result = "refined"], "c2858")
       \/ /\ pm.v["refiner"].id = 0 => pm.built["refiner"] < MaxBuilds
          /\ pm' = Raises([Access(StopKeepalive(pm), "refiner") EXCEPT !.invoked = TRUE])
       \/ /\ pm.v["refiner"].id = 0
          /\ pm' = Raises(StopKeepalive(pm))
    /\ PmOnly

\* Lines 2858-2863: the refiner makes room.
Call2858 ==
    /\ pm.op /= "none" /\ pm.pc = "c2858"
    /\ pm' = At(SwitchAway(pm, "refiner"), "c2864")
    /\ PmOnly

\* Line 2864: return result.
Call2864 ==
    /\ pm.op /= "none" /\ pm.pc = "c2864"
    /\ pm' = [At(pm, "c2865") EXCEPT !.kind = "return"]
    /\ PmOnly

\* Lines 2865-2867: finally.
RestoreNever(p) == p
Restore(p) == SetTensorrtEnabled(p, TRUE)

Call2865 ==
    /\ pm.op /= "none" /\ pm.pc = "c2865"
    /\ pm' = [StopKeepalive(Restore(pm)) EXCEPT
                 !.pc = "idle", !.op = "exit", !.arg = "",
                 !.mask = FALSE, !.strength = [some |-> FALSE, value |-> 0],
                 !.result = "none", !.invoked = FALSE, !.swapped = FALSE]
    /\ PmOnly

NextCall ==
    \/ ThreadEnds
    \/ Call2740 \/ Call2742 \/ Call2747 \/ Call2761 \/ Call2777 \/ Call2782
    \/ Call2785 \/ Call2806 \/ Call2858 \/ Call2864 \/ Call2865

SpecCall == InitCall /\ [][NextCall]_vars

\* Generation calls of a manager whose caller may have disabled TensorRT
\* (tensorrt_is_enabled = False, manager.py:1363-1370) before the first call.
InitCallFlag ==
    /\ pm \in {[p EXCEPT !.tensorrt_enabled = e, !.before = e] :
                 p \in Managers, e \in BOOLEAN}
    /\ NoEngine
    /\ manager = NoManager
    /\ keyed = NoKeyed
    /\ refine = NoRefine
    /\ waiters = NoWaiters

SpecCallFlag == InitCallFlag /\ [][NextCall]_vars

\* The pipelines' operations in any order, no generation call.
InitPipelines ==
    /\ pm \in {p \in Managers : p.mode = "offload" /\ p.refiner_strength = 3}
    /\ NoEngine
    /\ manager = NoManager
    /\ keyed = NoKeyed
    /\ refine = NoRefine
    /\ waiters = NoWaiters

NextPipelines ==
    \/ \E v \in Variants : GetPipelineOf(v)
    \/ \E v \in Variants : OffloadOf(v)
    \/ \E v \in Variants : ReloadOf(v)
    \/ \E v \in Variants : UnloadOf(v)
    \/ \E w \in WeightSets : SetAuxiliary(w)

SpecPipelines == InitPipelines /\ [][NextPipelines]_vars


\* The strength the refiner would run at is zero: passed as zero, or not
\* passed with a configured refiner_strength of zero.
ZeroStrength(p) ==
    \/ p.strength.some /\ p.strength.value = 0
    \/ ~p.strength.some /\ p.refiner_strength = 0

\* C22: in a generation call with a refiner configured and a refiner strength
\* of zero (passed, or configured with none passed), the refiner pipeline is
\* never run, no pipeline is moved or unloaded for refinement, and the call
\* returns the primary result.
C22_ZeroStrengthSkipsRefiner ==
    (pm.op /= "none" /\ pm.pc /= "idle" /\ pm.refiner /\ ZeroStrength(pm)) =>
        /\ ~pm.invoked
        /\ ~pm.swapped
        /\ pm.kind = "return" => pm.result = "primary"

\* C24: a generation call that has disabled TensorRT for its geometry leaves
\* it enabled when it exits, by return or by an exception.
C24_TensorrtRestored ==
    (pm.op = "exit" /\ pm.disabled) => pm.tensorrt_enabled

\* C24 witness: a call that disabled TensorRT and ended by an exception has
\* exited with TensorRT enabled.
C24_Witness ==
    pm.op = "exit" /\ pm.disabled /\ pm.kind = "raise" /\ pm.tensorrt_enabled

\* C25: under the offload or the unload switch mode at most one of the three
\* pipelines is on the device, at every point during and between generation
\* calls.
C25_AtMostOneOnDevice ==
    (pm.op /= "none" /\ pm.mode \in {"offload", "unload"}) =>
        Cardinality({x \in Variants : OnDevice(pm.v[x])}) <= 1

\* C26: at most one heartbeat thread of the manager is running at any time,
\* and none is running once a generation call has exited, by return or by an
\* exception.
C26_HeartbeatStopped ==
    pm.op /= "none" =>
        /\ pm.running <= 1
        /\ pm.pc = "idle" => (pm.running = 0 /\ pm.thread = "none")

\* C26 witness: a call in which the refiner raised (the heartbeat had been
\* started again for the refinement) has exited and no thread is running.
C26_Witness ==
    /\ pm.op = "exit" /\ pm.kind = "raise"
    /\ pm.v["refiner"].id /= 0
    /\ pm.running = 0 /\ pm.thread = "none"

\* C29: when a call switches back to a variant (base or inpainter) that an
\* earlier call switched away from: under the offload mode the variant still
\* has the instance it had then, offloaded, and nothing is constructed; under
\* the unload mode it has none and one is constructed; under no mode it has
\* the instance it had then, on the device, and nothing is constructed.
C29_SwitchBack ==
    [][(pm.op /= "none" /\ pm.pc = "c2742" /\ pm'.pc = "c2747"
            /\ pm.kept[Own(pm)] /= 0) =>
          CASE pm.mode = "offload" ->
                  /\ pm.v[Own(pm)].id = pm.kept[Own(pm)]
                  /\ IsOffloaded(pm.v[Own(pm)])
                  /\ pm'.built = pm.built
            [] pm.mode = "unload" ->
                  /\ pm.v[Own(pm)].id = 0
                  /\ pm'.built[Own(pm)] = pm.built[Own(pm)] + 1
            [] OTHER ->
                  /\ pm.v[Own(pm)].id = pm.kept[Own(pm)]
                  /\ OnDevice(pm.v[Own(pm)])
                  /\ pm'.built = pm.built]_vars

\* C21: for each variant, offload of a pipeline on the device keeps the
\* instance and marks it offloaded, reload of an offloaded pipeline keeps the
\* instance and brings it back to the device, neither constructs anything (so
\* offload followed by reload is a round trip); offload of an absent or
\* offloaded pipeline and reload of one that is not offloaded change nothing.
C21_OffloadReloadRoundTrip ==
    [][\A x \in Variants :
        /\ (pm'.op = "offload" /\ pm'.arg = x) =>
              /\ pm'.built = pm.built
              /\ IF OnDevice(pm.v[x])
                 THEN /\ IsOffloaded(pm'.v[x])
                      /\ pm'.v[x].id = pm.v[x].id /\ pm'.v[x].made = pm.v[x].made
                      /\ \A y \in Variants \ {x} : pm'.v[y] = pm.v[y]
                 ELSE pm'.v = pm.v
        /\ (pm'.op = "reload" /\ pm'.arg = x) =>
              /\ pm'.built = pm.built
              /\ IF IsOffloaded(pm.v[x])
                 THEN /\ OnDevice(pm'.v[x])
                      /\ pm'.v[x].id = pm.v[x].id /\ pm'.v[x].made = pm.v[x].made
                      /\ \A y \in Variants \ {x} : pm'.v[y] = pm.v[y]
                 ELSE pm'.v = pm.v]_vars

\* C21 witness: the inpainter, constructed once, is back on the device after
\* an offload and a reload (only reload sets the attribute to False).
C21_Witness ==
    /\ pm.op = "reload" /\ pm.arg = "inpainter"
    /\ pm.v["inpainter"].id = 1 /\ pm.v["inpainter"].flag = "false"
    /\ pm.v["inpainter"].made = 1
    /\ pm.built["inpainter"] = 1

\* C28: the offloaded attribute of a variant is set only while the variant has
\* an instance (so a variant is unloaded, on the device or offloaded, one of
\* the three), and an instance constructed where there was none is on the
\* device, whatever happened to the instances before it.
C28_OneStatePerVariant ==
    [][\A x \in Variants :
        /\ pm'.v[x].id = 0 => pm'.v[x].flag = "unset"
        /\ (pm.v[x].id = 0 /\ pm'.v[x].id /= 0) => OnDevice(pm'.v[x])]_vars

\* C28 witness: a second instance of the base pipeline is on the device (the
\* first one is gone) while the refiner is offloaded.
C28_Witness ==
    /\ pm.op = "access" /\ pm.arg = "pipeline"
    /\ pm.v["pipeline"].id = 2 /\ OnDevice(pm.v["pipeline"])
    /\ IsOffloaded(pm.v["refiner"])

\* C30: every pipeline there is (base, refiner, inpainter) that was made with
\* auxiliary weights was made with the weights of the current configuration.
C30_WeightsOfAllVariants ==
    pm.op /= "none" =>
        \A x \in Variants :
            (pm.v[x].id /= 0 /\ pm.v[x].made /= 0) => pm.v[x].made = pm.weights

\* -------------------------------------------------- dtype and scheduler
\* The names the dtype setter accepts (manager.py:1773-1776), and the inputs
\* tried: some of them, and names it does not know.
HalfNames == {"float16", "half"}
FloatNames == {"float32", "float"}
DtypeInputs == {"float16", "half", "float32", "float", "bfloat16", "int8"}

\* The names get_scheduler_class knows (manager.py:292-349), and the inputs
\* tried: "" is an argument that is not true (None, the empty string).
KnownSchedulers ==
    {"ddim", "ddpm", "deis", "dpmsm", "dpmss", "heun", "dpmd", "adpmd",
     "dpmsde", "unipc", "lmsd", "pndm", "eds", "eads"}
SchedulerInputs == {"", "ddim", "eads", "euler", "DDIM"}

\* get_scheduler_class (manager.py:268-350): the class of a known name (named
\* here as the name is), None for an argument that is not true, else ValueError.
get_scheduler_class_Any(scheduler) == scheduler
get_scheduler_class(scheduler) ==
    IF scheduler = "" \/ scheduler \in KnownSchedulers THEN scheduler ELSE "ValueError"

Returned(p, op, arg) == [p EXCEPT !.op = op, !.arg = arg, !.kind = "return"]
Raised(p, op, arg) == [p EXCEPT !.op = op, !.arg = arg, !.kind = "raise"]

\* The dtype setter (manager.py:1765-1785).
SetDtype(new_dtype) ==
    /\ Idle
    /\ pm' = IF pm.device = "cpu" THEN Raised(pm, "dtype", new_dtype)
             ELSE IF new_dtype \notin HalfNames \cup FloatNames
                  THEN Raised(pm, "dtype", new_dtype)
                  ELSE LET new == IF new_dtype \in HalfNames THEN "half" ELSE "float"
                           q == IF pm.dtype /= "unset" /\ pm.dtype /= new
                                THEN Unload(Unload(Unload(pm, "pipeline"), "refiner"),
                                            "inpainter")
                                ELSE pm
                       IN  Returned([q EXCEPT !.dtype = new], "dtype", new_dtype)
    /\ PmOnly

\* Lines 395-403: every instance there is gets a scheduler of the class stored.
HotSwap(p) ==
    [p EXCEPT !.v = [x \in Variants |->
                       IF p.v[x].id /= 0 THEN [p.v[x] EXCEPT !.uses = p.scheduler]
                       ELSE p.v[x]]]

\* The scheduler setter (manager.py:361-403).
SetScheduler(new_scheduler) ==
    /\ Idle
    /\ pm' = IF new_scheduler = ""
             THEN IF pm.scheduler /= "unset"
                  THEN Returned([Unload(pm, "pipeline") EXCEPT !.scheduler = "unset"],
                                "scheduler", new_scheduler)
                  ELSE Returned(pm, "scheduler", new_scheduler)
             ELSE LET scheduler_class == get_scheduler_class(new_scheduler)
                  IN  IF scheduler_class = "ValueError"
                      THEN Raised(pm, "scheduler", new_scheduler)
                      ELSE Returned(HotSwap([pm EXCEPT !.scheduler = scheduler_class]),
                                    "scheduler", new_scheduler)
    /\ PmOnly

InitSetters ==
    /\ pm \in {[p EXCEPT !.device = d] :
                 p \in {q \in Managers : q.mode = "offload" /\ q.refiner_strength = 3
                                          /\ q.ready = {}},
                 d \in {"cuda", "cpu"}}
    /\ NoEngine
    /\ manager = NoManager
    /\ keyed = NoKeyed
    /\ refine = NoRefine
    /\ waiters = NoWaiters

NextSetters ==
    \/ \E v \in Variants : GetPipelineOf(v)
    \/ \E new \in DtypeInputs : SetDtype(new)
    \/ \E new \in SchedulerInputs : SetScheduler(new)

SpecSetters == InitSetters /\ [][NextSetters]_vars

\* C27: assigning a precision that is none of the names of float16 and float32,
\* or a scheduler name (a non-empty string) that is not a known one, raises and
\* changes nothing: the stored dtype and scheduler are as before, no pipeline
\* is unloaded or constructed.
C27_InvalidAssignmentRaises ==
    [][(\/ pm'.op = "dtype" /\ pm'.arg \notin HalfNames \cup FloatNames
        \/ pm'.op = "scheduler" /\ pm'.arg \notin KnownSchedulers \cup {""})
       => /\ pm'.kind = "raise"
          /\ pm'.dtype = pm.dtype /\ pm'.scheduler = pm.scheduler
          /\ pm'.v = pm.v /\ pm'.built = pm.built]_vars

\* C27 witness: with a dtype and a scheduler stored and the three pipelines
\* loaded, an unknown scheduler name was refused.
C27_Witness ==
    /\ pm.op = "scheduler" /\ pm.arg = "euler" /\ pm.kind = "raise"
    /\ pm.dtype = "half" /\ pm.scheduler = "eads"
    /\ \A x \in Variants : pm.v[x].id /= 0

\* ------------------------------------------------ scaling for the refiner
\* The refiner sizes (manager.py:553-585 accepts any integer) and the sides of
\* the primary images tried.
RefinerSizes == {16, 18, 24, 30}
ImageSides == {8, 12, 16, 20, 24, 32}

MinOf(a, b) == IF a < b THEN a ELSE b

\* round(a / b) of Python for positive integers a, b: the nearest integer; at
\* an exact half the floating-point quotient may fall on either side of it.
Round(a, b) ==
    LET q == a \div b
        r == a % b
    IN  IF 2 * r < b THEN {q} ELSE IF 2 * r > b THEN {q + 1} ELSE {q, q + 1}

\* image_scale of lines 2828-2833 as the fraction <<n, d>>: refiner_size over
\* the smaller side when a side is below refiner_size and scaling is asked for.
ImageScale(size, width, height, scale_to_refiner_size) ==
    IF (width < size \/ height < size) /\ scale_to_refiner_size
    THEN <<size, MinOf(width, height)>>
    ELSE <<1, 1>>

\* 8 * round((side * image_scale) / 8) of lines 2834-2835.
Scaled(side, image_scale) ==
    {8 * k : k \in Round(side * image_scale[1], 8 * image_scale[2])}

InitRefine ==
    /\ refine \in {[op |-> "none", pc |-> "idle", size |-> n, width |-> 0, height |-> 0,
                    scale_to_refiner_size |-> TRUE, image_scale |-> <<1, 1>>,
                    image |-> <<0, 0>>, refined |-> <<0, 0>>, stored |-> <<0, 0>>] :
                     n \in RefinerSizes}
    /\ NoEngine
    /\ manager = NoManager
    /\ keyed = NoKeyed
    /\ pm = NoPm
    /\ waiters = NoWaiters

RefineOnly == UNCHANGED <<engineVars, manager, keyed, pm, waiters>>

\* The refiner_size setter (manager.py:566-585), between calls.
SetRefinerSize(new_refiner_size) ==
    /\ refine.pc = "idle"
    /\ refine' = [refine EXCEPT !.op = "size", !.size = new_refiner_size]
    /\ RefineOnly

\* One image of the primary result enters the loop (manager.py:2806-2827); an
\* image flagged as nsfw is left as it is (lines 2807-2810).
Image2806(width, height, is_nsfw, scale_to_refiner_size) ==
    /\ refine.pc = "idle"
    /\ refine' = IF is_nsfw
                 THEN [refine EXCEPT !.op = "skipped", !.width = width, !.height = height,
                                     !.scale_to_refiner_size = scale_to_refiner_size,
                                     !.image_scale = <<1, 1>>, !.image = <<0, 0>>,
                                     !.refined = <<0, 0>>, !.stored = <<width, height>>]
                 ELSE [refine EXCEPT !.op = "image", !.pc = "c2829",
                                     !.width = width, !.height = height,
                                     !.scale_to_refiner_size = scale_to_refiner_size,
                                     !.image_scale = <<1, 1>>, !.image = <<width, height>>,
                                     !.refined = <<0, 0>>, !.stored = <<0, 0>>]
    /\ RefineOnly

\* Lines 2829-2836: the image is scaled up when a side is below refiner_size.
Scale2829 ==
    /\ refine.pc = "c2829"
    /\ LET image_scale == ImageScale(refine.size, refine.width, refine.height,
                                     refine.scale_to_refiner_size)
       IN  IF image_scale /= <<1, 1>>
           THEN \E new_width \in Scaled(refine.width, image_scale),
                   new_height \in Scaled(refine.height, image_scale) :
                    refine' = [refine EXCEPT !.op = "scaled", !.pc = "c2851",
                                             !.image_scale = image_scale,
                                             !.image = <<new_width, new_height>>]
           ELSE refine' = [refine EXCEPT !.op = "unscaled", !.pc = "c2851"]
    /\ RefineOnly

\* Lines 2851-2853: the refiner returns an image of the size of the one passed.
Refine2851 ==
    /\ refine.pc = "c2851"
    /\ refine' = [refine EXCEPT !.op = "refined", !.pc = "c2854", !.refined = refine.image]
    /\ RefineOnly

\* Lines 2854-2857: a scaled image is resized to the original size and stored.
Store2854 ==
    /\ refine.pc = "c2854"
    /\ refine' = [refine EXCEPT !.op = "stored", !.pc = "idle",
                                !.stored = IF refine.image_scale /= <<1, 1>>
                                           THEN <<refine.width, refine.height>>
                                           ELSE refine.refined]
    /\ RefineOnly

NextRefine ==
    \/ \E n \in RefinerSizes : SetRefinerSize(n)
    \/ \E width \in ImageSides, height \in ImageSides, is_nsfw \in BOOLEAN,
          scale_to_refiner_size \in BOOLEAN :
            Image2806(width, height, is_nsfw, scale_to_refiner_size)
    \/ Scale2829
    \/ Refine2851
    \/ Store2854

SpecRefine == InitRefine /\ [][NextRefine]_vars

\* C23: an image with a side below the refiner's size is passed to the refiner
\* with sides that are multiples of 8 and not below the refiner's size, and
\* the image stored has the original width and height; an image with no side
\* below it is passed at its own size.
C23_ScaledForRefiner ==
    /\ refine.op \in {"refined", "stored"} =>
         IF refine.width < refine.size \/ refine.height < refine.size
         THEN /\ refine.image[1] % 8 = 0 /\ refine.image[2] % 8 = 0
              /\ refine.image[1] >= refine.size /\ refine.image[2] >= refine.size
         ELSE refine.image = <<refine.width, refine.height>>
    /\ refine.op = "stored" => refine.stored = <<refine.width, refine.height>>

\* ------------------------------------------------ claims: worker replacement
\* C33: a step that starts a worker in place of an earlier one leaves the three
\* channels empty: the new worker finds no instruction enqueued for the earlier
\* one, and the controller no result or progress envelope the earlier one
\* produced.
C33_ReplacementGetsEmptyChannels ==
    [][started' > started /\ started > 0 =>
         /\ instructions' = <<>>
         /\ results' = <<>>
         /\ intermediates' = <<>>]_vars

\* C35: no step of a terminate_process call made by the user starts a worker.
C35_TerminateStartsNoWorker ==
    [][call.op = "terminate" => started' = started]_vars

\* ------------------------------------------------- threads inside wait
\* Two threads of the controller, each in wait(id, timeout=None) for an id of
\* its own (thread t waits for id t); the worker is alive throughout.
Waiters == {1, 2}

\* Envelopes the worker may post on the results queue: a result, an error, an
\* error whose kind resolve() cannot find (line 264 raises), and one without
\* the "id" key (line 262 raises).
ResultEnvelope(k) == [id |-> k, kind |-> "result", val |-> Res(k)]
ErrorEnvelope(k) == [id |-> k, kind |-> "error", val |-> Err(k)]
Unresolvable(k) == [id |-> k, kind |-> "unresolvable", val |-> Err(k)]
Malformed == [id |-> 0, kind |-> "malformed", val |-> NoneVal]
WellFormed(e) == e.kind \in {"result", "error", "unresolvable"}

\* The locals of wait at line 248.
WaitLocals(k) ==
    [pc |-> "wait_249", id |-> k, all_results |-> <<>>, idx |-> 0,
     to_raise |-> NoneVal, to_return |-> NoneVal, got |-> FALSE, out |-> "none"]

\* The engine with a worker alive and requests 1 and 2 dispatched and taken.
WorkerBusy ==
    /\ request = 2
    /\ process = 1
    /\ started = 1
    /\ aliveSet = {1}
    /\ wcur = [w \in 1..(MaxSpawns + 1) |-> NoInstr]
    /\ qs = QueueNames
    /\ instructions = <<>>
    /\ results = <<>>
    /\ intermediates = <<>>
    /\ pc = "idle"
    /\ stack = <<>>
    /\ loc = InitLoc
    /\ call = NoCall
    /\ outcome = NoOutcome
    /\ posted = <<>>
    /\ owed = {}
    /\ manager = NoManager
    /\ keyed = NoKeyed
    /\ pm = NoPm
    /\ refine = NoRefine

WaitersOnly ==
    UNCHANGED <<request, process, started, aliveSet, wcur, qs, instructions,
                intermediates, pc, stack, loc, call, outcome, posted, owed,
                manager, keyed, pm, refine>>

\* Lines 249-257 in thread t: the worker is alive, the queue is drained.
WaiterDrain(t) ==
    /\ waiters.t[t].pc = "wait_249"
    /\ results' = <<>>
    /\ waiters' = [waiters EXCEPT !.t[t] = [@ EXCEPT !.all_results = results, !.idx = 1,
                                                     !.to_raise = NoneVal,
                                                     !.to_return = NoneVal,
                                                     !.pc = "wait_259"]]
    /\ WaitersOnly

\* What line 262 or 264 does with a drained envelope in a wait for id: raise
\* (the handler of lines 271-273 re-raises), capture, or put back.
Parse(result, id) ==
    IF ~WellFormed(result) THEN "raise"
    ELSE IF ~Matches(result, id) THEN "requeue"
    ELSE IF result.kind = "unresolvable" THEN "raise" ELSE "capture"

\* Lines 259-273 in thread t, one drained envelope.
WaiterTake(t) ==
    /\ waiters.t[t].pc = "wait_259"
    /\ waiters.t[t].idx <= Len(waiters.t[t].all_results)
    /\ LET l == waiters.t[t]
           result == l.all_results[l.idx]
           do == Parse(result, l.id)
       IN  /\ waiters' = [waiters EXCEPT !.t[t] =
                            IF do = "raise" THEN [l EXCEPT !.pc = "done", !.out = "parse"]
                            ELSE IF do = "capture" THEN Capture(l, result)
                            ELSE [l EXCEPT !.idx = @ + 1]]
           /\ results' = IF do = "requeue" THEN Append(results, result) ELSE results
    /\ WaitersOnly

\* Lines 274-279 in thread t: raise, return, or sleep and poll again.
WaiterDecide(t) ==
    /\ waiters.t[t].pc = "wait_259"
    /\ waiters.t[t].idx > Len(waiters.t[t].all_results)
    /\ LET l == waiters.t[t]
       IN  waiters' = [waiters EXCEPT !.t[t] =
                         IF l.to_raise /= NoneVal
                         THEN [l EXCEPT !.pc = "done", !.out = "raised"]
                         ELSE IF l.to_return /= NoneVal
                         THEN [l EXCEPT !.pc = "done", !.out = "returned"]
                         ELSE [l EXCEPT !.pc = "wait_249", !.all_results = <<>>,
                                        !.idx = 0]]
    /\ UNCHANGED results
    /\ WaitersOnly

\* The worker posts one of the envelopes it has yet to post.
WorkerPosts ==
    /\ \E e \in waiters.pending :
          /\ results' = Append(results, e)
          /\ waiters' = [waiters EXCEPT !.pending = @ \ {e}]
    /\ WaitersOnly

WaiterStep(t) == WaiterDrain(t) \/ WaiterTake(t) \/ WaiterDecide(t)

NextWaiters ==
    \/ \E t \in Waiters : WaiterDrain(t)
    \/ \E t \in Waiters : WaiterTake(t)
    \/ \E t \in Waiters : WaiterDecide(t)
    \/ WorkerPosts

\* The worker has a result to post for each of the two requests.
InitWaiters ==
    /\ WorkerBusy
    /\ waiters = [op |-> "wait", t |-> [k \in Waiters |-> WaitLocals(k)],
                  pending |-> {ResultEnvelope(k) : k \in Waiters}]

SpecWaiters ==
    /\ InitWaiters
    /\ [][NextWaiters]_vars
    /\ \A t \in Waiters : WF_vars(WaiterStep(t))
    /\ WF_vars(WorkerPosts)

\* The worker may post envelopes of every shape for the two requests.
ParseEnvelopes ==
    {Malformed} \cup
    UNION {{ResultEnvelope(k), ErrorEnvelope(k), Unresolvable(k)} : k \in Waiters}

InitParse ==
    /\ WorkerBusy
    /\ waiters \in {[op |-> "wait", t |-> [k \in Waiters |-> WaitLocals(k)], pending |-> P] :
                      P \in {Q \in SUBSET ParseEnvelopes : Cardinality(Q) = MaxDrained}}

SpecParse == InitParse /\ [][NextWaiters]_vars

\* An envelope is on the results queue, or in the hands of another thread
\* that has drained it and not yet looked at it.
Kept(e, t, w, q) ==
    \/ \E j \in 1..Len(q) : q[j] = e
    \/ \E u \in Waiters \ {t} :
          \E j \in 1..Len(w.t[u].all_results) : j >= w.t[u].idx /\ w.t[u].all_results[j] = e

\* C34: when a wait raises over an envelope it cannot parse, every well-formed
\* envelope tagged with another id that it drained in the same poll is back on
\* the results queue.
C34_ParseErrorKeepsBystanders ==
    [][\A t \in Waiters :
         waiters.t[t].out = "none" /\ waiters'.t[t].out = "parse" =>
           \A i \in 1..Len(waiters.t[t].all_results) :
              LET e == waiters.t[t].all_results[i]
              IN  WellFormed(e) /\ e.id /= waiters.t[t].id => Kept(e, t, waiters', results')]_vars

\* C36: with the worker alive and posting both envelopes, and each thread
\* taking its steps again and again, each wait eventually returns.
C36_BothWaitsReturn ==
    <>(\A t \in Waiters : waiters.t[t].out = "returned")

\* ------------------------------------------------ claims: scheduler changes
\* C31: a scheduler assignment that returns, to a scheduler or back to the
\* default, leaves every loaded instance in place, and afterwards the instance
\* uses the scheduler configured.
C31_SchedulerChangeInPlace ==
    [][pm'.op = "scheduler" /\ pm'.kind = "return" =>
         \A x \in Variants :
            pm.v[x].id /= 0 =>
              /\ pm'.v[x].id = pm.v[x].id
              /\ pm'.v[x].uses = pm'.scheduler]_vars

\* ------------------------------------------------ claims: generation calls
\* C32: in a generation call the heartbeat is active when a pipeline has been
\* constructed (the call has started it and not stopped it since), and is not
\* active when the primary generation, or a refinement on a refiner pipeline
\* that existed already, has run.
C32_HeartbeatCoversConstruction ==
    [][pm.op /= "none" /\ pm.pc /= "idle" =>
         /\ \A x \in Variants : pm'.built[x] > pm.built[x] => pm'.thread /= "none"
         /\ pm.pc = "c2782" /\ pm'.result = "primary" => pm'.thread = "none"
         /\ pm.pc = "c2806" /\ pm'.invoked /\ pm'.built = pm.built =>
              pm'.thread = "none"]_vars

\* C39: the exit of a generation call leaves tensorrt_is_enabled as it was
\* when the call began, and does not unload the base pipeline in doing so.
C39_FlagAsBeforeCall ==
    [][pm.op /= "none" /\ pm.pc = "c2865" /\ pm'.pc = "idle" =>
         /\ pm'.tensorrt_enabled = pm.before
         /\ pm'.v["pipeline"].id = pm.v["pipeline"].id]_vars

\* ------------------------------------------------------ weight sources
\* The checkpoints of the three variants (manager.py:1617-1730): file names in
\* the checkpoints directory, "" for None.  Names are compared without
\* directory and extension (lines 1635-1637), which here are the same for all.
ModelNames == {"m1", "m2"}
AuxiliaryNames == {"a", "b"}

\* Lines 2345-2352: the inpainting checkpoint made from a base checkpoint.
Derived(model) == IF model = "m1" THEN "m1-inpainting" ELSE "m2-inpainting"

\* A manager with its three sources and no pipeline. source: the checkpoint
\* each existing instance was constructed from ("": no instance). History:
\* asked (the inpainter the caller assigned last), last (the variant of the
\* accessor that returned last, and the source of the instance it returned).
SourceManagers ==
    {[op |-> "init", model |-> m, refiner |-> "", inpainter |-> "", asked |-> "",
      source |-> [x \in Variants |-> ""], last |-> [variant |-> "", source |-> ""]] :
        m \in ModelNames}

InitSources ==
    /\ manager \in SourceManagers
    /\ NoEngine
    /\ keyed = NoKeyed
    /\ pm = NoPm
    /\ refine = NoRefine
    /\ waiters = NoWaiters

ManagerOnly == UNCHANGED <<engineVars, keyed, pm, refine, waiters>>

\* unload_pipeline, unload_refiner, unload_inpainter on this record.
Drop(m, x) == [m EXCEPT !.source[x] = ""]

\* The model setter (manager.py:1625-1639).
SetModel(new_model) ==
    /\ manager' = [(IF manager.model /= new_model THEN Drop(manager, "pipeline")
                    ELSE manager) EXCEPT !.op = "model", !.model = new_model]
    /\ ManagerOnly

\* The refiner and inpainter setters (manager.py:1664-1679, 1705-1720): None is
\* stored and nothing else is done; a name other than the one stored unloads.
SetSource(m, x, new) ==
    IF new = "" THEN [m EXCEPT ![x] = ""]
    ELSE [(IF m[x] /= new THEN Drop(m, x) ELSE m) EXCEPT ![x] = new]

SetRefiner(new_refiner) ==
    /\ manager' = [SetSource(manager, "refiner", new_refiner) EXCEPT !.op = "refiner"]
    /\ ManagerOnly

SetInpainter(new_inpainter) ==
    /\ manager' = [SetSource(manager, "inpainter", new_inpainter) EXCEPT
                      !.op = "inpainter", !.asked = new_inpainter]
    /\ ManagerOnly

\* An accessor returns the instance there is, or one constructed now.
Got(m, x, from) ==
    LET q == IF m.source[x] = "" THEN [m EXCEPT !.source[x] = from] ELSE m
    IN  [q EXCEPT !.op = "returned", !.last = [variant |-> x, source |-> q.source[x]]]

\* The pipeline property (manager.py:2085-2176).
GetBase ==
    /\ manager' = Got(manager, "pipeline", manager.model)
    /\ ManagerOnly

\* The refiner_pipeline property (manager.py:2193-2311), which raises when no
\* refiner is configured.
GetRefiner ==
    /\ manager' = IF manager.refiner = ""
                  THEN [manager EXCEPT !.op = "raised"]
                  ELSE Got(manager, "refiner", manager.refiner)
    /\ ManagerOnly

\* The inpainter_pipeline property (manager.py:2328-2448): when it constructs
\* and no inpainter is configured, it stores one derived from the base model
\* (lines 2333-2352; the setter it uses unloads nothing, there being no instance).
GetInpainter ==
    /\ manager' = IF manager.source["inpainter"] /= ""
                  THEN Got(manager, "inpainter", "")
                  ELSE LET q == IF manager.inpainter = ""
                                THEN [manager EXCEPT !.inpainter = Derived(manager.model)]
                                ELSE manager
                       IN  Got(q, "inpainter", q.inpainter)
    /\ ManagerOnly

NextSources ==
    \/ \E new \in ModelNames : SetModel(new)
    \/ \E new \in AuxiliaryNames \cup {""} : SetRefiner(new)
    \/ \E new \in AuxiliaryNames \cup {""} : SetInpainter(new)
    \/ GetBase
    \/ GetRefiner
    \/ GetInpainter

SpecSources == InitSources /\ [][NextSources]_vars

\* The weight source configured for a variant: the model, the refiner, and
\* the inpainter assigned or else the one derived from the model.
Configured(m, x) ==
    CASE x = "pipeline" -> m.model
      [] x = "refiner" -> m.refiner
      [] OTHER -> IF m.asked /= "" THEN m.asked ELSE Derived(m.model)

\* C38: the instance an accessor has returned was constructed from the weight
\* source configured for its variant at that moment.
C38_ReturnedFromConfiguredSource ==
    manager.op = "returned" =>
      manager.last.source = Configured(manager, manager.last.variant)

\* --------------------------------------------------- keys of the variants
\* Engine sizes; 0 stands for a refiner or inpainter size that is not set.
EngineSizes == {1, 2, 3}

\* refiner_size and inpainter_size (manager.py:553-564, 587-598) for a base
\* model and a refiner or inpainter of the same family: the size set for the
\* variant, else the base size.
refiner_size(k) == IF k.refiner_size = 0 THEN k.size ELSE k.refiner_size
inpainter_size(k) == IF k.inpainter_size = 0 THEN k.size ELSE k.inpainter_size

\* refiner_unet_key and inpainter_unet_key (manager.py:1070-1074, 1101-1105).
refiner_unet_key(k) == get_unet_key(k.size, <<>>, <<>>, <<>>)
inpainter_unet_key(k) == get_unet_key(k.size, <<>>, <<>>, <<>>)

InitSizes ==
    /\ keyed \in [op : {"init"}, size : EngineSizes, refiner_size : {0}, inpainter_size : {0}]
    /\ NoEngine
    /\ manager = NoManager
    /\ pm = NoPm
    /\ refine = NoRefine
    /\ waiters = NoWaiters

KeyedOnly == UNCHANGED <<engineVars, manager, pm, refine, waiters>>

\* The size setter (manager.py:537-547).
SetSize(new_size) ==
    /\ keyed' = [keyed EXCEPT !.op = "size", !.size = new_size]
    /\ KeyedOnly

\* The refiner_size setter (manager.py:566-585): None removes the size set.
SetRefinerEngineSize(new_refiner_size) ==
    /\ keyed' = [keyed EXCEPT !.op = "refiner_size", !.refiner_size = new_refiner_size]
    /\ KeyedOnly

\* The inpainter_size setter (manager.py:600-619).
SetInpainterEngineSize(new_inpainter_size) ==
    /\ keyed' = [keyed EXCEPT !.op = "inpainter_size",
                              !.inpainter_size = new_inpainter_size]
    /\ KeyedOnly

NextSizes ==
    \/ \E n \in EngineSizes : SetSize(n)
    \/ \E n \in EngineSizes \cup {0} : SetRefinerEngineSize(n)
    \/ \E n \in EngineSizes \cup {0} : SetInpainterEngineSize(n)

SpecSizes == InitSizes /\ [][NextSizes]_vars

\* C40: a step that changes the refiner's (the inpainter's) size and leaves
\* the base size as it is changes the refiner's (the inpainter's) UNet key.
C40_KeyFollowsVariantSize ==
    [][keyed'.size = keyed.size =>
         /\ refiner_size(keyed') /= refiner_size(keyed) =>
              refiner_unet_key(keyed') /= refiner_unet_key(keyed)
         /\ inpainter_size(keyed') /= inpainter_size(keyed) =>
              inpainter_unet_key(keyed') /= inpainter_unet_key(keyed)]_vars

\* ------------------------------------- the progress callback when refining
\* The sides of the primary images; the refiner's size is 16.
CallbackSides == {8, 16, 24}
CallbackImages == [width : CallbackSides, height : CallbackSides]

\* The state of __call__ on entering the loop of line 2806: the images of the
\* primary result, and kwargs as the caller passed them.  original_callback,
\* width and height are locals of __call__ that every resize_callback reads
\* when it runs.
InitCallback ==
    /\ \E n \in 1..MaxImages, images \in [1..MaxImages -> CallbackImages],
          cb \in {"absent", "caller"}, type \in {"pil", "latent"},
          scale_to_refiner_size \in BOOLEAN :
            refine = [op |-> "call", pc |-> "c2806", size |-> 16,
                      images |-> [k \in 1..n |-> images[k]], i |-> 1,
                      scale_to_refiner_size |-> scale_to_refiner_size,
                      latent_callback |-> cb, latent_callback_type |-> type,
                      original_callback |-> "unbound", width |-> 0, height |-> 0,
                      image |-> <<0, 0>>, events |-> 0, event |-> "none",
                      frames |-> 0, calls |-> 0, passed |-> <<0, 0>>]
    /\ NoEngine
    /\ manager = NoManager
    /\ keyed = NoKeyed
    /\ pm = NoPm
    /\ waiters = NoWaiters

\* Lines 2806-2848 for image i: width and height are assigned, and for an image
\* scaled up with a callback of type pil in kwargs, original_callback is
\* assigned what kwargs holds and kwargs gets a new resize_callback.
Prepare2806 ==
    /\ refine.op = "call" /\ refine.pc = "c2806"
    /\ LET image == refine.images[refine.i]
           image_scale == ImageScale(refine.size, image.width, image.height,
                                     refine.scale_to_refiner_size)
           wraps == /\ image_scale /= <<1, 1>>
                    /\ refine.latent_callback /= "absent"
                    /\ refine.latent_callback_type = "pil"
       IN  \E new_width \in Scaled(image.width, image_scale),
              new_height \in Scaled(image.height, image_scale) :
               refine' = [refine EXCEPT
                            !.pc = "c2851",
                            !.width = image.width, !.height = image.height,
                            !.image = IF image_scale /= <<1, 1>>
                                      THEN <<new_width, new_height>>
                                      ELSE <<image.width, image.height>>,
                            !.original_callback =
                                IF wraps THEN refine.latent_callback ELSE @,
                            !.latent_callback = IF wraps THEN "resize" ELSE @,
                            !.events = 0, !.event = "none", !.frames = 0,
                            !.calls = 0, !.passed = <<0, 0>>]
    /\ RefineOnly

\* The refiner pipeline called at line 2851 reports progress: it calls
\* kwargs["latent_callback"] with images of the size it works at.
Progress2851 ==
    /\ refine.op = "call" /\ refine.pc = "c2851"
    /\ refine.event /= "running" /\ refine.events < MaxEvents
    /\ refine.latent_callback /= "absent"
    /\ refine' = IF refine.latent_callback = "caller"
                 THEN [refine EXCEPT !.events = @ + 1, !.event = "delivered",
                                     !.frames = 0, !.calls = 1, !.passed = refine.image]
                 ELSE [refine EXCEPT !.events = @ + 1, !.event = "running",
                                     !.frames = 1, !.calls = 0, !.passed = refine.image]
    /\ RefineOnly

\* resize_callback (lines 2841-2845): the images are resized to (width, height)
\* and original_callback is called with them.  A resize_callback found there
\* is one more frame; the interpreter raises RecursionError at MaxFrames, and
\* the error leaves __call__.
ResizeCallback ==
    /\ refine.op = "call" /\ refine.event = "running"
    /\ LET resized == <<refine.width, refine.height>>
       IN  refine' =
             IF refine.original_callback = "caller"
             THEN [refine EXCEPT !.event = "delivered", !.calls = 1, !.passed = resized]
             ELSE IF refine.frames < MaxFrames
             THEN [refine EXCEPT !.frames = @ + 1, !.passed = resized]
             ELSE [refine EXCEPT !.event = "overflow", !.pc = "raised"]
    /\ RefineOnly

\* Lines 2851-2857: the refiner returns, the image is stored, and the loop
\* goes on to the next image or ends.
Return2851 ==
    /\ refine.op = "call" /\ refine.pc = "c2851" /\ refine.event /= "running"
    /\ refine' = IF refine.i < Len(refine.images)
                 THEN [refine EXCEPT !.pc = "c2806", !.i = @ + 1]
                 ELSE [refine EXCEPT !.pc = "done"]
    /\ RefineOnly

NextCallback ==
    \/ Prepare2806
    \/ Progress2851
    \/ ResizeCallback
    \/ Return2851

SpecCallback == InitCallback /\ [][NextCallback]_vars

\* C37: while an image is refined, the callback in kwargs is the caller's or a
\* resize_callback whose original_callback is the caller's, and a progress
\* event of type pil that has ended has called the caller's callback once,
\* through at most one resize_callback, with images of the width and height
\* the image had before scaling.
C37_CallerCalledOncePerEvent ==
    refine.pc \in {"c2851", "raised"} /\ refine.latent_callback_type = "pil" =>
        /\ refine.latent_callback = "resize" => refine.original_callback = "caller"
        /\ refine.event \in {"delivered", "overflow"} =>
             /\ refine.event = "delivered"
             /\ refine.calls = 1
             /\ refine.frames <= 1
             /\ refine.passed = <<refine.images[refine.i].width,
                                  refine.images[refine.i].height>>

====
